---- MODULE Spec2Model ----
(***************************************************************************)
(* The conversion formatter: column mapping, row validation, optimisation  *)
(* and export shaping, and the React component (App) that sequences them.  *)
(*                                                                         *)
(* JavaScript strings are TLA+ strings, read one character at a time with  *)
(* SubSeq.  A cell of a row is undefined, a string or a number (a          *)
(* spreadsheet delivers numbers): Undefined, Str(s) or Num(n).             *)
(***************************************************************************)
EXTENDS Integers, Sequences, FiniteSets, TLC

(***************************************************************************)
(* JavaScript values and string primitives                                 *)
(***************************************************************************)
Undefined == [t |-> "undefined"]
Str(s) == [t |-> "string", s |-> s]
Num(n) == [t |-> "number", n |-> n]

Ch(s, i) == SubSeq(s, i, i)

\* the characters \s matches, among those the model's inputs hold
WHITESPACE == {" ", "\t"}

IsDigit(c) == c \in {"0", "1", "2", "3", "4", "5", "6", "7", "8", "9"}

DigitVal(c) ==
  CASE c = "0" -> 0 [] c = "1" -> 1 [] c = "2" -> 2 [] c = "3" -> 3 [] c = "4" -> 4
    [] c = "5" -> 5 [] c = "6" -> 6 [] c = "7" -> 7 [] c = "8" -> 8 [] c = "9" -> 9

RECURSIVE trimStart(_)
trimStart(s) ==
  IF Len(s) > 0 /\ Ch(s, 1) \in WHITESPACE THEN trimStart(Tail(s)) ELSE s

RECURSIVE trimEnd(_)
trimEnd(s) ==
  IF Len(s) > 0 /\ Ch(s, Len(s)) \in WHITESPACE
  THEN trimEnd(SubSeq(s, 1, Len(s) - 1))
  ELSE s

\* String.prototype.trim
trim(s) == trimEnd(trimStart(s))

\* s.replace(/[class]/g, ''): the characters of s that are not in the class
RECURSIVE removeChars(_, _)
removeChars(s, class) ==
  IF Len(s) = 0 THEN ""
  ELSE (IF Ch(s, 1) \in class THEN "" ELSE Ch(s, 1)) \o removeChars(Tail(s), class)

\* s.replace(/[^class]/g, ''): the characters of s that are in the class
RECURSIVE keepChars(_, _)
keepChars(s, class) ==
  IF Len(s) = 0 THEN ""
  ELSE (IF Ch(s, 1) \in class THEN Ch(s, 1) ELSE "") \o keepChars(Tail(s), class)

\* s.includes(sub)
includes(s, sub) ==
  \E i \in 1..(Len(s) - Len(sub) + 1) : SubSeq(s, i, i + Len(sub) - 1) = sub

startsWith(s, pre) == Len(s) >= Len(pre) /\ SubSeq(s, 1, Len(pre)) = pre

endsWith(s, suf) ==
  Len(s) >= Len(suf) /\ SubSeq(s, Len(s) - Len(suf) + 1, Len(s)) = suf

\* A regular expression made of \d and literal characters only, written as a
\* shape: "d" stands for \d, every other character for itself.
\* ShapePrefix is the match of /^shape/, ShapeFull of /^shape$/.
ShapePrefix(s, shape) ==
  /\ Len(s) >= Len(shape)
  /\ \A i \in 1..Len(shape) :
       IF Ch(shape, i) = "d" THEN IsDigit(Ch(s, i)) ELSE Ch(s, i) = Ch(shape, i)

ShapeFull(s, shape) == Len(s) = Len(shape) /\ ShapePrefix(s, shape)

\* the longest prefix of s made of digits
RECURSIVE DigitPrefix(_)
DigitPrefix(s) ==
  IF Len(s) > 0 /\ IsDigit(Ch(s, 1)) THEN Ch(s, 1) \o DigitPrefix(Tail(s)) ELSE ""

\* parseInt of a string of digits
RECURSIVE parseInt(_)
parseInt(ds) ==
  IF Len(ds) = 0 THEN 0
  ELSE 10 * parseInt(SubSeq(ds, 1, Len(ds) - 1)) + DigitVal(Ch(ds, Len(ds)))

\* String(n) of an integer
RECURSIVE NatToString(_)
NatToString(n) ==
  IF n < 10 THEN Ch("0123456789", n + 1)
  ELSE NatToString(n \div 10) \o Ch("0123456789", (n % 10) + 1)

IntToString(n) == IF n < 0 THEN "-" \o NatToString(0 - n) ELSE NatToString(n)

\* String(value), and a value inside a template literal
String(c) ==
  CASE c.t = "undefined" -> "undefined"
    [] c.t = "string" -> c.s
    [] c.t = "number" -> IntToString(c.n)

\* the truthiness of a cell: !!c
Truthy(c) ==
  CASE c.t = "undefined" -> FALSE
    [] c.t = "string" -> c.s # ""
    [] c.t = "number" -> c.n # 0

\* c.trim() raises a TypeError unless c is a string
TrimThrows(c) == c.t # "string"

\* the test (!c || c.trim() === ''): it raises when c is a non-zero number
BlankThrows(c) == Truthy(c) /\ TrimThrows(c)
Blank(c) == ~Truthy(c) \/ trim(c.s) = ""

HasNonZero(ds) == \E i \in 1..Len(ds) : Ch(ds, i) # "0"

\* parseFloat(str): whether the result is NaN, and the sign of the number
\* (0 for a zero).  It reads the longest prefix that is a decimal literal;
\* an exponent changes neither answer and is not read.
parseFloat(str) ==
  LET s0 == trimStart(str)
      neg == Len(s0) > 0 /\ Ch(s0, 1) = "-"
      s1 == IF Len(s0) > 0 /\ Ch(s0, 1) \in {"+", "-"} THEN Tail(s0) ELSE s0
      ip == DigitPrefix(s1)
      r1 == SubSeq(s1, Len(ip) + 1, Len(s1))
      fp == IF Len(r1) > 0 /\ Ch(r1, 1) = "." THEN DigitPrefix(Tail(r1)) ELSE ""
  IN IF startsWith(s1, "Infinity")
     THEN [nan |-> FALSE, sign |-> IF neg THEN -1 ELSE 1]
     ELSE IF ip = "" /\ fp = ""
     THEN [nan |-> TRUE, sign |-> 0]
     ELSE [nan |-> FALSE,
           sign |-> IF HasNonZero(ip \o fp) THEN (IF neg THEN -1 ELSE 1) ELSE 0]

(***************************************************************************)
(* constants.js                                                            *)
(***************************************************************************)
\* MODES.FACEBOOK is read by ModeSelector and App; constants.js defines no
\* such key, so it evaluates to undefined: a mode that is neither of the two.
MODES == [STANDARD |-> "standard", EC4L |-> "ec4l", FACEBOOK |-> "undefined"]

CONVERSION_WINDOWS == [standard |-> 90, ec4l |-> 63]

VALIDATION_MESSAGES ==
  [errors |->
     [missingGclid |-> "Missing Google Click ID (GCLID) - required for Standard mode",
      missingEmailOrPhone |->
        "Missing both Email and Phone - at least one is required for EC4L mode",
      invalidDate |-> "Invalid date format - could not parse"],
   warnings |->
     [gclidTooOld |->
        "GCLID may be older than 90 days - conversion might not be attributed",
      ec4lTooOld |-> "Conversion may be older than 63 days - may not be matched",
      possibleDuplicate |-> "Possible duplicate entry detected",
      missingValue |-> "Missing conversion value",
      missingCurrency |-> "Missing currency - default will be applied"],
   info |->
     [dateReformatted |-> "Date reformatted to Google Ads format",
      timezoneApplied |-> "Default timezone applied",
      timeAdded |-> "Default time (12:00:00) added",
      emailHashed |-> "Email normalized and hashed (SHA-256)",
      phoneHashed |-> "Phone normalized and hashed (SHA-256)",
      nameHashed |-> "Name normalized and hashed (SHA-256)",
      currencyFixed |-> "Currency code uppercased",
      valueFixed |-> "Value format corrected"]]

(***************************************************************************)
(* Dates.  A Date is an instant: the day number since 1970-01-01 and the   *)
(* second of that day, in the browser's local time, taken to be UTC with   *)
(* no daylight saving.                                                     *)
(***************************************************************************)
Null == [t |-> "null"]
InvalidDate == [t |-> "date", valid |-> FALSE]

\* new Date(...) of a finite instant: seconds outside a day carry into days
MakeDate(day, sec) ==
  [t |-> "date", valid |-> TRUE, day |-> day + (sec \div 86400), sec |-> sec % 86400]

\* date-fns isValid
isValid(d) == d.t = "date" /\ d.valid

\* the day number of the civil date y-m-d (m in 1..12, any d)
DaysFromCivil(y, m, d) ==
  LET yy == IF m <= 2 THEN y - 1 ELSE y
      era == yy \div 400
      yoe == yy - era * 400
      mp == (m + 9) % 12
      doy == (153 * mp + 2) \div 5 + d - 1
      doe == yoe * 365 + yoe \div 4 - yoe \div 100 + doy
  IN era * 146097 + doe - 719468

\* the civil date <<y, m, d>> of a day number
CivilFromDays(z0) ==
  LET z == z0 + 719468
      era == z \div 146097
      doe == z - era * 146097
      yoe == (doe - doe \div 1460 + doe \div 36524 - doe \div 146096) \div 365
      doy == doe - (365 * yoe + yoe \div 4 - yoe \div 100)
      mp == (5 * doy + 2) \div 153
      d == doy - (153 * mp + 2) \div 5 + 1
      m == IF mp < 10 THEN mp + 3 ELSE mp - 9
      y == yoe + era * 400 + (IF m <= 2 THEN 1 ELSE 0)
  IN <<y, m, d>>

IsLeapYear(y) == (y % 400 = 0) \/ (y % 4 = 0 /\ y % 100 # 0)

DaysInMonth(y, m) ==
  IF m = 2 THEN (IF IsLeapYear(y) THEN 29 ELSE 28)
  ELSE IF m \in {4, 6, 9, 11} THEN 30 ELSE 31

\* new Date(year, monthIndex, day): local midnight; a month or a day out of
\* range carries over, and a year 0..99 means 1900 + year
NewDateYMD(year, monthIndex, day) ==
  LET y0 == IF year \in 0..99 THEN 1900 + year ELSE year
      y == y0 + (monthIndex \div 12)
      m == (monthIndex % 12) + 1
  IN MakeDate(DaysFromCivil(y, m, 1) + (day - 1), 0)

\* date-fns differenceInDays(left, right): full days, truncated towards zero
differenceInDays(left, right) ==
  LET dd == left.day - right.day
      ds == left.sec - right.sec
  IN IF dd > 0 /\ ds < 0 THEN dd - 1
     ELSE IF dd < 0 /\ ds > 0 THEN dd + 1
     ELSE dd

(***************************************************************************)
(* date-fns parseISO, as far as the inputs of the model reach it: a date   *)
(* yyyy, yyyy-mm, yyyy-mm-dd, yyyymmdd or yyyy-ddd (or a two-digit         *)
(* century), then after one "T" or " " a time HH, HH:mm or HH:mm:ss (the   *)
(* colons optional, a fraction of a second dropped) and a zone Z, +HH:mm   *)
(* or +HHmm.  Week dates, six-digit years and fractions of an hour or a    *)
(* minute are not modelled.                                                *)
(***************************************************************************)
\* the positions of the date-time delimiters /[T ]/
Delims(s) == {i \in 1..Len(s) : Ch(s, i) \in {"T", " "}}

\* the position of the first character of s that is in class, or 0
FirstIn(s, class) ==
  IF \E i \in 1..Len(s) : Ch(s, i) \in class
  THEN CHOOSE i \in 1..Len(s) :
         Ch(s, i) \in class /\ \A j \in 1..(i - 1) : Ch(s, j) \notin class
  ELSE 0

\* parseYear and parseDate: the day number of the date part, or -1
parseISODate(ds) ==
  LET four == ShapePrefix(ds, "dddd")
      year == IF four THEN parseInt(SubSeq(ds, 1, 4)) ELSE 100 * parseInt(ds)
      rest0 == IF four THEN SubSeq(ds, 5, Len(ds)) ELSE ""
      rest == IF startsWith(rest0, "-") THEN Tail(rest0) ELSE rest0
      ymd(m, d) ==
        IF m \in 1..12 /\ d >= 1 /\ d <= DaysInMonth(year, m)
        THEN DaysFromCivil(year, m, d)
        ELSE -1
  IN IF ~four /\ ~ShapeFull(ds, "dd") THEN -1
     ELSE IF rest = "" THEN DaysFromCivil(year, 1, 1)
     ELSE IF ShapeFull(rest, "ddd")
     THEN LET n == parseInt(rest)
          IN IF n >= 1 /\ n <= (IF IsLeapYear(year) THEN 366 ELSE 365)
             THEN DaysFromCivil(year, 1, 1) + n - 1
             ELSE -1
     ELSE IF ShapeFull(rest, "dd") THEN ymd(parseInt(rest), 1)
     ELSE IF ShapeFull(rest, "dd-dd")
     THEN ymd(parseInt(SubSeq(rest, 1, 2)), parseInt(SubSeq(rest, 4, 5)))
     ELSE IF ShapeFull(rest, "dddd")
     THEN ymd(parseInt(SubSeq(rest, 1, 2)), parseInt(SubSeq(rest, 3, 4)))
     ELSE -1

\* parseTime: the second of the day of the time part, or -1
parseISOTime(ts) ==
  LET hh == SubSeq(ts, 1, 2)
      a == SubSeq(ts, 3, Len(ts))
      a1 == IF startsWith(a, ":") THEN Tail(a) ELSE a
      mm == SubSeq(a1, 1, 2)
      b == SubSeq(a1, 3, Len(a1))
      b1 == IF startsWith(b, ":") THEN Tail(b) ELSE b
      ss == SubSeq(b1, 1, 2)
      c == SubSeq(b1, 3, Len(b1))
      fraction == c = "" \/ (Ch(c, 1) \in {".", ","} /\ DigitPrefix(Tail(c)) = Tail(c))
      ok(h, m, sec) ==
        IF h = 24 THEN m = 0 /\ sec = 0 ELSE sec < 60 /\ m < 60 /\ h < 25
      at(h, m, sec) == IF ok(h, m, sec) THEN h * 3600 + m * 60 + sec ELSE -1
  IN IF ~ShapePrefix(ts, "dd") THEN -1
     ELSE IF a = "" THEN at(parseInt(hh), 0, 0)
     ELSE IF ~ShapePrefix(a1, "dd") THEN -1
     ELSE IF b = "" THEN at(parseInt(hh), parseInt(mm), 0)
     ELSE IF ~ShapePrefix(b1, "dd") \/ ~fraction THEN -1
     ELSE at(parseInt(hh), parseInt(mm), parseInt(ss))

\* parseTimezone: the seconds to add to the wall-clock time to get the
\* instant (a zone east of Greenwich is behind it), or 86400 for NaN
parseISOTimezone(tz) ==
  LET sign == IF Ch(tz, 1) = "+" THEN -1 ELSE 1
      body == Tail(tz)
      hours == parseInt(SubSeq(body, 1, 2))
      colon == ShapeFull(body, "dd:dd")
      minutes ==
        IF colon THEN parseInt(SubSeq(body, 4, 5))
        ELSE IF ShapeFull(body, "dddd") THEN parseInt(SubSeq(body, 3, 4))
        ELSE 0
  IN IF tz = "Z" THEN 0
     ELSE IF ~(Ch(tz, 1) \in {"+", "-"}) THEN 0
     ELSE IF ~(ShapeFull(body, "dd") \/ colon \/ ShapeFull(body, "dddd")) THEN 0
     ELSE IF minutes > 59 THEN 86400
     ELSE sign * (hours * 3600 + minutes * 60)

parseISO(s) ==
  LET ds == Delims(s)
      cut == IF ds = {} THEN Len(s) + 1 ELSE CHOOSE i \in ds : TRUE
      first == SubSeq(s, 1, cut - 1)
      z == FirstIn(first, {"Z", "z"})
      datePart == IF z > 0 THEN SubSeq(first, 1, z - 1) ELSE first
      timeString ==
        IF z > 0 THEN SubSeq(s, z, Len(s)) ELSE SubSeq(s, cut + 1, Len(s))
      k == FirstIn(timeString, {"Z", "+", "-"})
      timePart == IF k > 0 THEN SubSeq(timeString, 1, k - 1) ELSE timeString
      zonePart == IF k > 0 THEN SubSeq(timeString, k, Len(timeString)) ELSE ""
      day == parseISODate(datePart)
      time == IF timePart = "" THEN 0 ELSE parseISOTime(timePart)
      offset == IF zonePart = "" THEN 0 ELSE parseISOTimezone(zonePart)
  IN IF Cardinality(ds) > 1 THEN InvalidDate
     ELSE IF includes(first, ":") THEN InvalidDate
     ELSE IF datePart = "" \/ day = -1 \/ time = -1 \/ offset = 86400
     THEN InvalidDate
     ELSE MakeDate(day, time + offset)

\* new Date(string) of a string that is no ISO date.  What it accepts is
\* left to the engine; every engine answers Invalid Date for a text without
\* a digit, and the inputs of the model that reach this call are such texts.
NativeDate(s) == InvalidDate

(***************************************************************************)
(* validator.js                                                            *)
(***************************************************************************)
\* the first of the six patterns that matches gives new Date(year, month - 1,
\* day), which is a valid Date whatever the numbers are
tryParseDatePatterns(trimmed) ==
  LET g(i, j) == parseInt(SubSeq(trimmed, i, j))
  IN IF /\ ShapePrefix(trimmed, "dddd-dd-dd")
        /\ Len(trimmed) > 10
        /\ Ch(trimmed, 11) \in WHITESPACE
        /\ ShapePrefix(trimStart(SubSeq(trimmed, 11, Len(trimmed))), "dd:dd:dd")
     THEN NewDateYMD(g(1, 4), g(6, 7) - 1, g(9, 10))
     ELSE IF ShapeFull(trimmed, "dddd-dd-dd") \/ ShapeFull(trimmed, "dddd/dd/dd")
     THEN NewDateYMD(g(1, 4), g(6, 7) - 1, g(9, 10))
     ELSE IF ShapeFull(trimmed, "dd/dd/dddd")
     THEN NewDateYMD(g(7, 10), g(1, 2) - 1, g(4, 5))
     ELSE IF ShapeFull(trimmed, "dd-dd-dddd") \/ ShapeFull(trimmed, "dd.dd.dddd")
     THEN NewDateYMD(g(7, 10), g(4, 5) - 1, g(1, 2))
     ELSE Null

tryParseDate(dateStr) ==
  LET OrNative(native) == IF isValid(native) THEN native ELSE Null
      OrPatterns(pat, trimmed) ==
        IF pat # Null THEN pat ELSE OrNative(NativeDate(trimmed))
      OrISO(iso, trimmed) ==
        IF isValid(iso) THEN iso
        ELSE OrPatterns(tryParseDatePatterns(trimmed), trimmed)
      Parse(trimmed) == OrISO(parseISO(trimmed), trimmed)
  IN IF dateStr = "" THEN Null ELSE Parse(trim(dateStr))

\* new Date() at the moment of the check: 2024-06-15 12:00:00
now == MakeDate(DaysFromCivil(2024, 6, 15), 43200)

Issue(type, message, rowIndex, field) ==
  [type |-> type, message |-> message, rowIndex |-> rowIndex, field |-> field]

\* validateDate: the issue of a date string, as a list of none or one
validateDate(dateStr, rowIndex, md) ==
  LET maxDays ==
        IF md = MODES.STANDARD
        THEN CONVERSION_WINDOWS.standard
        ELSE CONVERSION_WINDOWS.ec4l
      Check(parsed) ==
        IF parsed = Null
        THEN <<Issue("error", VALIDATION_MESSAGES.errors.invalidDate, rowIndex,
                     "conversionTime")>>
        ELSE IF differenceInDays(now, parsed) > maxDays
        THEN <<Issue("warning",
                     IF md = MODES.STANDARD
                     THEN VALIDATION_MESSAGES.warnings.gclidTooOld
                     ELSE VALIDATION_MESSAGES.warnings.ec4lTooOld,
                     rowIndex, "conversionTime")>>
        ELSE <<>>
  IN Check(tryParseDate(dateStr))

CURRENCY_SYMBOLS == {"$", "€", "£", "¥", "₹"}

\* validateValue: the issue of a value string, as a list of none or one
validateValue(value, rowIndex) ==
  LET cleaned == removeChars(value, CURRENCY_SYMBOLS \cup {","} \cup WHITESPACE)
  IN IF parseFloat(cleaned).nan
     THEN <<Issue("error", "Invalid conversion value - must be numeric", rowIndex,
                  "conversionValue")>>
     ELSE <<>>

\* validateRow raises a TypeError where it calls trim on a cell that is a
\* number: on a non-zero number in a required field, on any number in
\* conversionValue (0 reaches the trim of the else-if), and on a non-zero
\* number in currency when the row has a value
validateRowThrows(row, md, cfg) ==
  \/ md = MODES.STANDARD /\ BlankThrows(row.gclid)
  \/ md = MODES.EC4L /\ (BlankThrows(row.email) \/ BlankThrows(row.phone))
  \/ BlankThrows(row.conversionTime)
  \/ row.conversionValue.t = "number"
  \/ ~Blank(row.conversionValue) /\ BlankThrows(row.currency)

\* a validateRow that checks the conversion time only of a row whose identity
\* check passed
validateRowMutant(row, md, cfg) ==
  LET rowIndex == row._rowIndex
      identity ==
        IF md = MODES.STANDARD
        THEN IF Blank(row.gclid)
             THEN <<Issue("error", VALIDATION_MESSAGES.errors.missingGclid, rowIndex,
                          "gclid")>>
             ELSE <<>>
        ELSE IF md = MODES.EC4L
        THEN IF Blank(row.email) /\ Blank(row.phone)
             THEN <<Issue("error", VALIDATION_MESSAGES.errors.missingEmailOrPhone,
                          rowIndex, "email")>>
             ELSE <<>>
        ELSE <<>>
      time ==
        IF identity # <<>> THEN <<>>
        ELSE IF Blank(row.conversionTime)
        THEN <<Issue("error", "Missing conversion time - required field", rowIndex,
                     "conversionTime")>>
        ELSE validateDate(row.conversionTime.s, rowIndex, md)
      hasValue == ~Blank(row.conversionValue)
      value ==
        IF hasValue
        THEN validateValue(row.conversionValue.s, rowIndex)
        ELSE <<Issue("warning", VALIDATION_MESSAGES.warnings.missingValue, rowIndex,
                     "conversionValue")>>
      currency ==
        IF hasValue /\ Blank(row.currency) /\ cfg.defaultCurrency = ""
        THEN <<Issue("warning", VALIDATION_MESSAGES.warnings.missingCurrency,
                     rowIndex, "currency")>>
        ELSE <<>>
  IN identity \o time \o value \o currency

\* validateRow, where it raises nothing: the issues of one row
validateRow(row, md, cfg) ==
  LET rowIndex == row._rowIndex
      identity ==
        IF md = MODES.STANDARD
        THEN IF Blank(row.gclid)
             THEN <<Issue("error", VALIDATION_MESSAGES.errors.missingGclid, rowIndex,
                          "gclid")>>
             ELSE <<>>
        ELSE IF md = MODES.EC4L
        THEN IF Blank(row.email) /\ Blank(row.phone)
             THEN <<Issue("error", VALIDATION_MESSAGES.errors.missingEmailOrPhone,
                          rowIndex, "email")>>
             ELSE <<>>
        ELSE <<>>
      time ==
        IF Blank(row.conversionTime)
        THEN <<Issue("error", "Missing conversion time - required field", rowIndex,
                     "conversionTime")>>
        ELSE validateDate(row.conversionTime.s, rowIndex, md)
      hasValue == ~Blank(row.conversionValue)
      value ==
        IF hasValue
        THEN validateValue(row.conversionValue.s, rowIndex)
        ELSE <<Issue("warning", VALIDATION_MESSAGES.warnings.missingValue, rowIndex,
                     "conversionValue")>>
      currency ==
        IF hasValue /\ Blank(row.currency) /\ cfg.defaultCurrency = ""
        THEN <<Issue("warning", VALIDATION_MESSAGES.warnings.missingCurrency,
                     rowIndex, "currency")>>
        ELSE <<>>
  IN identity \o time \o value \o currency

\* (c || ''): the cell as text, or the empty string when it is falsy
OrEmpty(c) == IF Truthy(c) THEN String(c) ELSE ""

\* the duplicate key of a row
DuplicateKey(row, md) ==
  IF md = MODES.STANDARD
  THEN String(row.gclid) \o "-" \o String(row.conversionTime)
  ELSE OrEmpty(row.email) \o "-" \o OrEmpty(row.phone) \o "-"
         \o String(row.conversionTime)

\* the duplicate warning of the row at position i (index i - 1 of forEach),
\* as a list of none or one
DuplicateIssue(row, i, md, seenKeys) ==
  LET key == DuplicateKey(row, md)
  IN IF key \in seenKeys /\ key # "-"
     THEN <<Issue("warning", VALIDATION_MESSAGES.warnings.possibleDuplicate, i,
                  IF md = MODES.STANDARD THEN "gclid" ELSE "email")>>
     ELSE <<>>

\* the forEach of validateAll from position i on
RECURSIVE validateAllLoop(_, _, _, _, _, _)
validateAllLoop(data, md, cfg, i, allIssues, seenKeys) ==
  IF i > Len(data) THEN allIssues
  ELSE validateAllLoop(data, md, cfg, i + 1,
         allIssues \o validateRow(data[i], md, cfg)
                   \o DuplicateIssue(data[i], i, md, seenKeys),
         seenKeys \cup {DuplicateKey(data[i], md)})

CountType(issues, type) ==
  Cardinality({i \in 1..Len(issues) : issues[i].type = type})

Threw == [threw |-> TRUE]

\* a validateAll that lets one Error pass
validateAllMutant(data, md, cfg) ==
  IF \E i \in 1..Len(data) : validateRowThrows(data[i], md, cfg)
  THEN Threw
  ELSE LET Summary(allIssues) ==
             [errors |-> CountType(allIssues, "error"),
              warnings |-> CountType(allIssues, "warning"),
              info |-> CountType(allIssues, "info"),
              total |-> Len(data)]
           Report(allIssues, summary) ==
             [threw |-> FALSE, issues |-> allIssues, summary |-> summary,
              canExport |-> summary.errors <= 1]
           Result(allIssues) == Report(allIssues, Summary(allIssues))
       IN Result(validateAllLoop(data, md, cfg, 1, <<>>, {}))

\* validateAll: the report, or Threw when validateRow raises on a row
validateAll(data, md, cfg) ==
  IF \E i \in 1..Len(data) : validateRowThrows(data[i], md, cfg)
  THEN Threw
  ELSE LET Summary(allIssues) ==
             [errors |-> CountType(allIssues, "error"),
              warnings |-> CountType(allIssues, "warning"),
              info |-> CountType(allIssues, "info"),
              total |-> Len(data)]
           Report(allIssues, summary) ==
             [threw |-> FALSE, issues |-> allIssues, summary |-> summary,
              canExport |-> summary.errors = 0]
           Result(allIssues) == Report(allIssues, Summary(allIssues))
       IN Result(validateAllLoop(data, md, cfg, 1, <<>>, {}))

(***************************************************************************)
(* columnMapper.js.  The mappings object is read field by field: a field   *)
(* holds Absent (no such key), Undefined (a key set to undefined) or the    *)
(* name of a source column.  A source row is a function from column names  *)
(* to cells.                                                               *)
(***************************************************************************)
LOWER == "abcdefghijklmnopqrstuvwxyz"
UPPER == "ABCDEFGHIJKLMNOPQRSTUVWXYZ"

\* the characters of a string
Chars(s) == {Ch(s, i) : i \in 1..Len(s)}

\* the lower-case letter of each upper-case letter, and the reverse
LowerOf == [c \in Chars(UPPER) |-> Ch(LOWER, FirstIn(UPPER, {c}))]
UpperOf == [c \in Chars(LOWER) |-> Ch(UPPER, FirstIn(LOWER, {c}))]

\* the character c, replaced by table[c] when the table has it
MapChar(c, table) == IF c \in DOMAIN table THEN table[c] ELSE c

\* String.prototype.toLowerCase
RECURSIVE toLowerCase(_)
toLowerCase(s) ==
  IF Len(s) = 0 THEN "" ELSE MapChar(Ch(s, 1), LowerOf) \o toLowerCase(Tail(s))

\* String.prototype.toUpperCase
RECURSIVE toUpperCase(_)
toUpperCase(s) ==
  IF Len(s) = 0 THEN "" ELSE MapChar(Ch(s, 1), UpperOf) \o toUpperCase(Tail(s))

DIGITS == Chars("0123456789")

\* the characters [a-z0-9]
ALNUM == Chars(LOWER) \cup DIGITS

COLUMN_ALIASES ==
  [gclid |-> <<"gclid", "google_click_id", "click_id", "googleclickid",
               "google click id">>,
   email |-> <<"email", "e-mail", "email_address", "emailaddress", "user_email",
               "customer_email">>,
   phone |-> <<"phone", "tel", "telephone", "phone_number", "phonenumber", "mobile",
               "mobile_phone", "cell">>,
   firstName |-> <<"first_name", "firstname", "first", "fname", "given_name",
                   "givenname">>,
   lastName |-> <<"last_name", "lastname", "last", "lname", "surname", "family_name",
                  "familyname">>,
   conversionTime |-> <<"date", "timestamp", "conversion_date", "created_at",
                        "conversion_time", "time", "datetime", "converted_at",
                        "conversion_datetime">>,
   conversionValue |-> <<"value", "revenue", "amount", "total", "conversion_value",
                         "order_value", "price", "sale_amount">>,
   currency |-> <<"currency", "curr", "currency_code", "currencycode", "cur">>,
   country |-> <<"country", "country_code", "countrycode", "nation">>,
   zip |-> <<"zip", "zipcode", "zip_code", "postal_code", "postalcode", "postcode",
             "postal">>]

normalizeColumnName(name) ==
  keepChars(trim(toLowerCase(name)), ALNUM)

matchesAliases(header, aliases) ==
  LET Some(normalizedHeader) ==
        \E a \in 1..Len(aliases) :
          LET Match(normalizedAlias) ==
                \/ normalizedHeader = normalizedAlias
                \/ includes(normalizedHeader, normalizedAlias)
                \/ includes(normalizedAlias, normalizedHeader)
          IN Match(normalizeColumnName(aliases[a]))
  IN Some(normalizeColumnName(header))

Absent == [t |-> "absent"]

\* the names of the fields getFieldsForMode lists
getFieldsForMode(md) ==
  IF md = "standard"
  THEN <<"gclid", "conversionTime", "conversionValue", "currency">>
  ELSE <<"email", "phone", "firstName", "lastName", "country", "zip",
         "conversionTime", "conversionValue", "currency">>

\* the mappings object with no key
NoMappings ==
  [gclid |-> Absent, email |-> Absent, phone |-> Absent, firstName |-> Absent,
   lastName |-> Absent, country |-> Absent, zip |-> Absent,
   conversionTime |-> Absent, conversionValue |-> Absent, currency |-> Absent]

\* Object.keys(mappings)
Keys(mp) == {f \in DOMAIN mp : mp[f] # Absent}

InSeq(x, seq) == \E i \in 1..Len(seq) : seq[i] = x

autoDetectColumns(headers, md) ==
  LET fieldsToDetect ==
        IF md = "standard"
        THEN <<"gclid", "conversionTime", "conversionValue", "currency">>
        ELSE <<"email", "phone", "firstName", "lastName", "country", "zip",
               "conversionTime", "conversionValue", "currency">>
      Found(hits) ==
        IF hits = {} THEN Absent
        ELSE LET Stored(matchedHeader) ==
                   IF matchedHeader # "" THEN Str(matchedHeader) ELSE Absent
             IN Stored(headers[CHOOSE i \in hits : \A j \in hits : i <= j])
      Detect(field) ==
        IF InSeq(field, fieldsToDetect)
        THEN Found({i \in 1..Len(headers) :
                      matchesAliases(headers[i], COLUMN_ALIASES[field])})
        ELSE Absent
  IN [gclid |-> Detect("gclid"), email |-> Detect("email"),
      phone |-> Detect("phone"), firstName |-> Detect("firstName"),
      lastName |-> Detect("lastName"), conversionTime |-> Detect("conversionTime"),
      conversionValue |-> Detect("conversionValue"),
      currency |-> Detect("currency"), country |-> Detect("country"),
      zip |-> Detect("zip")]

\* row[sourceColumn] for the mapping m of a field, undefined when the field
\* is not copied
MappedCell(row, m) ==
  IF m.t = "string" /\ m.s # "" /\ m.s \in DOMAIN row THEN row[m.s] ELSE Undefined

applyMappings(data, mp, md) ==
  [index \in 1..Len(data) |->
     [_rowIndex |-> index,
      gclid |-> MappedCell(data[index], mp.gclid),
      email |-> MappedCell(data[index], mp.email),
      phone |-> MappedCell(data[index], mp.phone),
      firstName |-> MappedCell(data[index], mp.firstName),
      lastName |-> MappedCell(data[index], mp.lastName),
      country |-> MappedCell(data[index], mp.country),
      zip |-> MappedCell(data[index], mp.zip),
      conversionTime |-> MappedCell(data[index], mp.conversionTime),
      conversionValue |-> MappedCell(data[index], mp.conversionValue),
      currency |-> MappedCell(data[index], mp.currency)]]

(***************************************************************************)
(* hasher.js                                                               *)
(***************************************************************************)
HEX == "0123456789abcdef"

\* the characters of the texts that are hashed
CHARSET == " +-.0123456789@_abcdefghijklmnopqrstuvwxyz"

\* two hexadecimal digits for a character: its position in CHARSET
HexByte(c) ==
  LET Code(n) == Ch(HEX, (n \div 16) + 1) \o Ch(HEX, (n % 16) + 1)
  IN Code(FirstIn(CHARSET, {c}))

RECURSIVE HexOf(_)
HexOf(s) == IF Len(s) = 0 THEN "" ELSE HexByte(Ch(s, 1)) \o HexOf(Tail(s))

\* sha256Hash: 64 lowercase hexadecimal digits.  SHA-256 itself is replaced
\* by an encoding with the two properties the program relies on: the digest
\* is a function of the text, and texts that differ (of up to 32 characters
\* of CHARSET) have digests that differ.
sha256Hash(text) ==
  SubSeq(HexOf(text)
           \o "0000000000000000000000000000000000000000000000000000000000000000",
         1, 64)

\* s.indexOf(c) + 1: the position of the first c in s, or 0
indexOf(s, c) == FirstIn(s, {c})

\* normalizeEmail that drops the dots of no local part
normalizeEmailMutant(email) ==
  LET CutPlus(cleanLocal) ==
        IF indexOf(cleanLocal, "+") # 0
        THEN SubSeq(cleanLocal, 1, indexOf(cleanLocal, "+") - 1)
        ELSE cleanLocal
      Split(normalized, atIndex) ==
        IF atIndex = 0 THEN normalized
        ELSE CutPlus(SubSeq(normalized, 1, atIndex - 1))
               \o SubSeq(normalized, atIndex, Len(normalized))
      Normalize(normalized) == Split(normalized, indexOf(normalized, "@"))
  IN IF email = "" THEN "" ELSE Normalize(trim(toLowerCase(email)))

normalizeEmail(email) ==
  LET CutPlus(cleanLocal) ==
        IF indexOf(cleanLocal, "+") # 0
        THEN SubSeq(cleanLocal, 1, indexOf(cleanLocal, "+") - 1)
        ELSE cleanLocal
      Split(normalized, atIndex) ==
        IF atIndex = 0 THEN normalized
        ELSE LET localPart == SubSeq(normalized, 1, atIndex - 1)
                 domain == SubSeq(normalized, atIndex + 1, Len(normalized))
             IN IF domain = "gmail.com" \/ domain = "googlemail.com"
                THEN CutPlus(removeChars(localPart, {"."})) \o "@" \o domain
                ELSE CutPlus(localPart) \o "@" \o domain
      Normalize(normalized) == Split(normalized, indexOf(normalized, "@"))
  IN IF email = "" THEN "" ELSE Normalize(trim(toLowerCase(email)))

\* normalizePhone whose last case prefixes the country code to every input,
\* also to one that began with +
normalizePhoneMutant(phone, defaultCountryCode) ==
  LET Format(hasPlus, normalized) ==
        IF hasPlus /\ Len(normalized) >= 10 THEN "+" \o normalized
        ELSE IF Len(normalized) = 10 THEN "+" \o defaultCountryCode \o normalized
        ELSE IF Len(normalized) = 11 /\ startsWith(normalized, "1")
        THEN "+" \o normalized
        ELSE "+" \o defaultCountryCode \o normalized
      Normalize(trimmed) == Format(startsWith(trimmed, "+"), keepChars(trimmed, DIGITS))
  IN IF phone = "" THEN "" ELSE Normalize(trim(phone))

normalizePhone(phone, defaultCountryCode) ==
  LET Format(hasPlus, normalized) ==
        IF hasPlus /\ Len(normalized) >= 10 THEN "+" \o normalized
        ELSE IF Len(normalized) = 10 THEN "+" \o defaultCountryCode \o normalized
        ELSE IF Len(normalized) = 11 /\ startsWith(normalized, "1")
        THEN "+" \o normalized
        ELSE IF hasPlus THEN "+" \o normalized
        ELSE "+" \o defaultCountryCode \o normalized
      Normalize(trimmed) == Format(startsWith(trimmed, "+"), keepChars(trimmed, DIGITS))
  IN IF phone = "" THEN "" ELSE Normalize(trim(phone))

\* the characters \w matches
WORD == ALNUM \cup Chars(UPPER) \cup {"_"}

WORD_OR_SPACE == WORD \cup WHITESPACE

\* s.replace(/\s+/g, ' '): every run of whitespace becomes one space
RECURSIVE collapseSpaces(_)
collapseSpaces(s) ==
  IF Len(s) = 0 THEN ""
  ELSE IF Ch(s, 1) \in WHITESPACE
  THEN " " \o collapseSpaces(trimStart(s))
  ELSE Ch(s, 1) \o collapseSpaces(Tail(s))

normalizeName(name) ==
  IF name = "" THEN ""
  ELSE collapseSpaces(keepChars(trim(toLowerCase(name)), WORD_OR_SPACE))

\* hashField of a string: the value it resolves to, and the number of
\* digests of crypto.subtle it waited for (0 or 1)
hashField(value, fieldType) ==
  LET Hash(normalized) ==
        IF normalized = "" THEN [value |-> "", digests |-> 0]
        ELSE [value |-> sha256Hash(normalized), digests |-> 1]
  IN IF value = "" \/ trim(value) = "" THEN [value |-> "", digests |-> 0]
     ELSE IF fieldType = "email" THEN Hash(normalizeEmail(value))
     ELSE IF fieldType = "phone" THEN Hash(normalizePhone(value, "1"))
     ELSE IF fieldType \in {"firstName", "lastName"} THEN Hash(normalizeName(value))
     ELSE Hash(trim(value))

\* the characters [a-f0-9] and their upper case
HEXDIGITS == Chars(HEX) \cup Chars("ABCDEF")

\* a test for lower-case digests only: the regular expression without /i
isAlreadyHashedMutant(value) ==
  LET Test(trimmed) ==
        Len(trimmed) = 64 /\ \A i \in 1..64 : Ch(trimmed, i) \in Chars(HEX)
  IN value # "" /\ Test(trim(value))

\* isAlreadyHashed of a string
isAlreadyHashed(value) ==
  LET Test(trimmed) ==
        Len(trimmed) = 64 /\ \A i \in 1..64 : Ch(trimmed, i) \in HEXDIGITS
  IN value # "" /\ Test(trim(value))

(***************************************************************************)
(* optimizer.js, in its two revisions.  Revision "A" is                    *)
(* src/utils/optimizer.js: a space between date and time, 12:00:00 as the  *)
(* default time, the currency of the row.  Revision "B" (the second half   *)
(* of part_006) writes a "T", defaults to 23:59:59 or, for a date of       *)
(* today, to the time of the clock, accepts numbers as values and takes    *)
(* the currency from the settings only.                                    *)
(***************************************************************************)
REVISIONS == {"A", "B"}

\* the separator of date and time in the output
Separator(rev) == IF rev = "A" THEN " " ELSE "T"

\* String(n).padStart(w, '0')
padStart(n, w) ==
  LET Pad(s) == IF Len(s) >= w THEN s ELSE SubSeq("0000", 1, w - Len(s)) \o s
  IN Pad(NatToString(n))

\* date-fns format(date, 'yyyy-MM-dd')
format(date) ==
  LET Write(ymd) ==
        padStart(ymd[1], 4) \o "-" \o padStart(ymd[2], 2) \o "-" \o padStart(ymd[3], 2)
  IN Write(CivilFromDays(date.day))

\* date-fns isToday
isToday(date) == date.day = now.day

\* a regular expression for the offset that matches nothing
TimezoneSuffixMutant(s) == FALSE

\* the match of /[+-]\d{2}:\d{2}$/
TimezoneSuffix(s) ==
  /\ Len(s) >= 6
  /\ Ch(s, Len(s) - 5) \in {"+", "-"}
  /\ ShapeFull(SubSeq(s, Len(s) - 4, Len(s)), "dd:dd")

\* the positions where /\d{2}:\d{2}/ matches
TimePositions(s) == {i \in 1..Len(s) : ShapePrefix(SubSeq(s, i, Len(s)), "dd:dd")}

\* the default time of a date that has none: <<hours, minutes, seconds>>
DefaultTime(rev, parsed) ==
  IF rev = "A" THEN <<12, 0, 0>>
  ELSE IF isToday(parsed)
  THEN <<now.sec \div 3600, (now.sec % 3600) \div 60, now.sec % 60>>
  ELSE <<23, 59, 59>>

\* optimizeDate of a string that is not blank
optimizeDateString(dateStr, defaultTimezone, rev) ==
  LET trimmed == trim(dateStr)
      hasTimezone == TimezoneSuffix(trimmed) \/ endsWith(trimmed, "Z")
      timezone ==
        IF TimezoneSuffix(trimmed) THEN SubSeq(trimmed, Len(trimmed) - 5, Len(trimmed))
        ELSE IF endsWith(trimmed, "Z") THEN "+00:00"
        ELSE defaultTimezone
      Matched(at) ==
        <<parseInt(SubSeq(trimmed, at, at + 1)),
          parseInt(SubSeq(trimmed, at + 3, at + 4)),
          IF ShapePrefix(SubSeq(trimmed, at + 5, Len(trimmed)), ":dd")
          THEN parseInt(SubSeq(trimmed, at + 6, at + 7))
          ELSE 0>>
      Time(positions, parsed) ==
        IF positions # {}
        THEN Matched(CHOOSE i \in positions : \A j \in positions : i <= j)
        ELSE DefaultTime(rev, parsed)
      Result(hasTime, formatted) ==
        [value |-> formatted,
         changes |->
           (IF hasTime THEN <<>> ELSE <<VALIDATION_MESSAGES.info.timeAdded>>)
           \o (IF hasTimezone THEN <<>>
               ELSE <<VALIDATION_MESSAGES.info.timezoneApplied>>)
           \o (IF formatted # trimmed
               THEN <<VALIDATION_MESSAGES.info.dateReformatted>>
               ELSE <<>>)]
      Write(positions, parsed, hms) ==
        Result(positions # {},
               format(parsed) \o Separator(rev) \o padStart(hms[1], 2) \o ":"
                 \o padStart(hms[2], 2) \o ":" \o padStart(hms[3], 2) \o timezone)
      Timed(positions, parsed) == Write(positions, parsed, Time(positions, parsed))
      Format(parsed) ==
        IF parsed = Null \/ ~isValid(parsed)
        THEN [value |-> dateStr, changes |-> <<>>]
        ELSE Timed(TimePositions(trimmed), parsed)
  IN IF /\ Len(trimmed) = 25
        /\ ShapePrefix(trimmed, "dddd-dd-dd" \o Separator(rev) \o "dd:dd:dd")
        /\ TimezoneSuffix(trimmed)
     THEN [value |-> trimmed, changes |-> <<>>]
     ELSE Format(tryParseDate(trimmed))

\* optimizeDate of a cell: threw tells that dateStr.trim() raised
optimizeDate(dateStr, defaultTimezone, rev) ==
  IF BlankThrows(dateStr) THEN Threw
  ELSE IF Blank(dateStr) THEN [threw |-> FALSE, value |-> "", changes |-> <<>>]
  ELSE LET Ok(r) == [threw |-> FALSE, value |-> r.value, changes |-> r.changes]
       IN Ok(optimizeDateString(dateStr.s, defaultTimezone, rev))

\* s.replace(/(\d)[,\s](?=\d{3})/g, '$1') from position i on: a comma or a
\* whitespace goes when a digit stands before it and three digits after it
RECURSIVE removeThousands(_, _)
removeThousands(s, i) ==
  IF i > Len(s) THEN ""
  ELSE (IF /\ Ch(s, i) \in {","} \cup WHITESPACE
           /\ i > 1
           /\ IsDigit(Ch(s, i - 1))
           /\ i + 3 <= Len(s)
           /\ \A k \in 1..3 : IsDigit(Ch(s, i + k))
        THEN ""
        ELSE Ch(s, i)) \o removeThousands(s, i + 1)

\* the match of /^\d+,\d{1,2}$/
DecimalComma(s) ==
  LET At(k) ==
        /\ k > 1
        /\ Len(s) - k \in {1, 2}
        /\ \A i \in (1..Len(s)) \ {k} : IsDigit(Ch(s, i))
  IN At(indexOf(s, ","))

\* s.replace(',', '.'): the first comma becomes a period
replaceComma(s) ==
  LET At(k) ==
        IF k = 0 THEN s ELSE SubSeq(s, 1, k - 1) \o "." \o SubSeq(s, k + 1, Len(s))
  IN At(indexOf(s, ","))

\* optimizeValue of the trimmed text of a value
optimizeValueString(original) ==
  LET Spaces(optimized) ==
        [value |-> removeChars(optimized, WHITESPACE),
         changes |-> IF removeChars(optimized, WHITESPACE) # original
                     THEN <<VALIDATION_MESSAGES.info.valueFixed>>
                     ELSE <<>>]
      Decimal(optimized) ==
        Spaces(IF DecimalComma(optimized) THEN replaceComma(optimized) ELSE optimized)
      Thousands(optimized) == Decimal(removeThousands(optimized, 1))
  IN Thousands(removeChars(original, CURRENCY_SYMBOLS))

\* optimizeValue of a cell.  Revision A tests (!value || value.trim() === '')
\* and raises on a non-zero number; revision B reads String(value).
optimizeValue(value, rev) ==
  LET Ok(r) == [threw |-> FALSE, value |-> r.value, changes |-> r.changes]
      Empty == [threw |-> FALSE, value |-> "", changes |-> <<>>]
  IN IF rev = "A"
     THEN IF BlankThrows(value) THEN Threw
          ELSE IF Blank(value) THEN Empty
          ELSE Ok(optimizeValueString(trim(value.s)))
     ELSE IF value = Undefined \/ value = Str("") THEN Empty
          ELSE Ok(optimizeValueString(trim(String(value))))

\* optimizeCurrency of a cell
optimizeCurrency(currency, defaultCurrency) ==
  LET Upper(original, optimized) ==
        [threw |-> FALSE, value |-> optimized,
         changes |-> IF optimized # original
                     THEN <<VALIDATION_MESSAGES.info.currencyFixed>>
                     ELSE <<>>]
      Fix(original) == Upper(original, toUpperCase(original))
  IN IF BlankThrows(currency) THEN Threw
     ELSE IF Blank(currency)
     THEN [threw |-> FALSE, value |-> toUpperCase(defaultCurrency), changes |-> <<>>]
     ELSE Fix(trim(currency.s))

\* [...new Set(allChanges)]: the changes without repetition, in the order of
\* their first occurrence
RECURSIVE unique(_)
unique(changes) ==
  IF changes = <<>> THEN <<>>
  ELSE LET last == changes[Len(changes)]
           Keep(front) == IF InSeq(last, front) THEN front ELSE Append(front, last)
       IN Keep(unique(SubSeq(changes, 1, Len(changes) - 1)))

\* One step of optimizeRow.  st is the row under optimisation: whether a
\* step raised (threw), the digests awaited so far, the optimized row and
\* the changes.  A step that finds threw set does nothing.
\* optimized[field] = result.value; allChanges.push(...result.changes)
Assign(st, field, result) ==
  IF st.threw THEN st
  ELSE IF result.threw THEN [st EXCEPT !.threw = TRUE]
  ELSE [st EXCEPT !.data[field] = Str(result.value),
                  !.changes = @ \o result.changes]

\* if (row[field] && !isAlreadyHashed(row[field])) { optimized[field] =
\* await hashField(row[field], field); if (push) allChanges.push(change) }
HashStep(st, row, field, change, push) ==
  IF st.threw \/ ~Truthy(row[field]) THEN st
  ELSE IF TrimThrows(row[field]) THEN [st EXCEPT !.threw = TRUE]
  ELSE IF isAlreadyHashed(row[field].s) THEN st
  ELSE LET Put(hashed) ==
             [st EXCEPT !.data[field] = Str(hashed.value),
                        !.digests = @ + hashed.digests,
                        !.changes = @ \o (IF push THEN <<change>> ELSE <<>>)]
       IN Put(hashField(row[field].s, field))

\* if (row[field]) optimized[field] = row[field].trim()
TrimStep(st, row, field) ==
  IF st.threw \/ ~Truthy(row[field]) THEN st
  ELSE IF TrimThrows(row[field]) THEN [st EXCEPT !.threw = TRUE]
  ELSE [st EXCEPT !.data[field] = Str(trim(row[field].s))]

\* the value step: revision A optimizes a truthy value and leaves any other
\* as it is, revision B writes '' in place of a value it does not optimize
ValueStep(st, row, rev) ==
  IF rev = "A"
  THEN IF Truthy(row.conversionValue)
       THEN Assign(st, "conversionValue", optimizeValue(row.conversionValue, rev))
       ELSE st
  ELSE IF row.conversionValue # Undefined /\ row.conversionValue # Str("")
       THEN Assign(st, "conversionValue", optimizeValue(row.conversionValue, rev))
       ELSE Assign(st, "conversionValue",
                   [threw |-> FALSE, value |-> "", changes |-> <<>>])

\* the currency step: revision A optimizes the currency of the row,
\* revision B writes the default currency of the settings
CurrencyStep(st, row, cfg, rev) ==
  IF rev = "A"
  THEN Assign(st, "currency", optimizeCurrency(row.currency, cfg.defaultCurrency))
  ELSE Assign(st, "currency",
              [threw |-> FALSE, value |-> toUpperCase(cfg.defaultCurrency),
               changes |-> <<>>])

\* optimizeRow: threw, or the optimized row and its changes; digests counts
\* the digests awaited, up to the raise if there is one
optimizeRow(row, md, cfg, rev) ==
  LET names == VALIDATION_MESSAGES.info
      firstHashed ==
        Truthy(row.firstName) /\ row.firstName.t = "string"
          /\ ~isAlreadyHashed(row.firstName.s)
      Date(st) ==
        Assign(st, "conversionTime",
               optimizeDate(row.conversionTime, cfg.timezone, rev))
      Value(st) == ValueStep(st, row, rev)
      Currency(st) == CurrencyStep(st, row, cfg, rev)
      Email(st) == HashStep(st, row, "email", names.emailHashed, TRUE)
      Phone(st) == HashStep(st, row, "phone", names.phoneHashed, TRUE)
      First(st) == HashStep(st, row, "firstName", names.nameHashed, TRUE)
      Last(st) == HashStep(st, row, "lastName", names.nameHashed, ~firstHashed)
      Country(st) == TrimStep(st, row, "country")
      Zip(st) == TrimStep(st, row, "zip")
      Pii(st) ==
        IF md = MODES.EC4L THEN Zip(Country(Last(First(Phone(Email(st)))))) ELSE st
      Done(st) == [st EXCEPT !.changes = unique(@)]
  IN Done(Pii(Currency(Value(Date(
       [threw |-> FALSE, digests |-> 0, data |-> row, changes |-> <<>>])))))

\* changeSummary[change] = (changeSummary[change] || 0) + 1 for each change
Count(changeSummary, changes) ==
  [c \in DOMAIN changeSummary \cup {changes[i] : i \in 1..Len(changes)} |->
     (IF c \in DOMAIN changeSummary THEN changeSummary[c] ELSE 0)
     + (IF InSeq(c, changes) THEN 1 ELSE 0)]

\* allChanges.push({ ...change, rowIndex }) for each change: the characters
\* of the change, here the change itself, and the row
Spread(changes, rowIndex) ==
  [i \in 1..Len(changes) |-> [change |-> changes[i], rowIndex |-> rowIndex]]

\* the loop of optimizeAll from position i on
RECURSIVE optimizeAllLoop(_, _, _, _, _, _)
optimizeAllLoop(data, md, cfg, rev, i, acc) ==
  IF i > Len(data) \/ acc.threw THEN acc
  ELSE LET Push(result) ==
             IF result.threw
             THEN [acc EXCEPT !.threw = TRUE, !.digests = @ + result.digests]
             ELSE [threw |-> FALSE,
                   digests |-> acc.digests + result.digests,
                   data |-> Append(acc.data, result.data),
                   changes |-> acc.changes
                                 \o Spread(result.changes, data[i]._rowIndex),
                   changeSummary |-> Count(acc.changeSummary, result.changes)]
       IN optimizeAllLoop(data, md, cfg, rev, i + 1,
                          Push(optimizeRow(data[i], md, cfg, rev)))

\* optimizeAll: what the promise settles with (threw when a row raised), and
\* the number of digests it waited for before
optimizeAll(data, md, cfg, rev) ==
  optimizeAllLoop(data, md, cfg, rev, 1,
                  [threw |-> FALSE, digests |-> 0, data |-> <<>>, changes |-> <<>>,
                   changeSummary |-> [c \in {} |-> 0]])

\* (c || '')
OrEmptyCell(c) == IF Truthy(c) THEN c ELSE Str("")

GOOGLE_ADS_COLUMNS ==
  [standard |-> <<"Google Click ID", "Conversion Name", "Conversion Time",
                  "Conversion Value", "Conversion Currency">>,
   ec4l |-> <<"Email", "Phone Number", "First Name", "Last Name", "Country", "Zip",
              "Conversion Name", "Conversion Time", "Conversion Value",
              "Conversion Currency">>]

\* the export rows: a function from the names of the columns to cells
transformToGoogleAdsFormat(data, md, conversionName) ==
  [i \in 1..Len(data) |->
     IF md = MODES.STANDARD
     THEN [column \in {"Google Click ID", "Conversion Name", "Conversion Time",
                       "Conversion Value", "Conversion Currency"} |->
             CASE column = "Google Click ID" -> OrEmptyCell(data[i].gclid)
               [] column = "Conversion Name" -> Str(conversionName)
               [] column = "Conversion Time" -> OrEmptyCell(data[i].conversionTime)
               [] column = "Conversion Value" -> OrEmptyCell(data[i].conversionValue)
               [] column = "Conversion Currency" -> OrEmptyCell(data[i].currency)]
     ELSE [column \in {"Email", "Phone Number", "First Name", "Last Name", "Country",
                       "Zip", "Conversion Name", "Conversion Time",
                       "Conversion Value", "Conversion Currency"} |->
             CASE column = "Email" -> OrEmptyCell(data[i].email)
               [] column = "Phone Number" -> OrEmptyCell(data[i].phone)
               [] column = "First Name" -> OrEmptyCell(data[i].firstName)
               [] column = "Last Name" -> OrEmptyCell(data[i].lastName)
               [] column = "Country" -> OrEmptyCell(data[i].country)
               [] column = "Zip" -> OrEmptyCell(data[i].zip)
               [] column = "Conversion Name" -> Str(conversionName)
               [] column = "Conversion Time" -> OrEmptyCell(data[i].conversionTime)
               [] column = "Conversion Value" -> OrEmptyCell(data[i].conversionValue)
               [] column = "Conversion Currency" -> OrEmptyCell(data[i].currency)]]

(***************************************************************************)
(* State.  The state of App: the revision of the program that runs (fixed  *)
(* at the start), the useState cells of App, the processData runs that are *)
(* waiting for optimizeAll, and the run that finished in the last step.    *)
(* call and ret are the argument and the result of one call of a function  *)
(* of the pipeline on its own (SpecValidator).                             *)
(***************************************************************************)
VARIABLES revision, mode, settings, fileData, mappings, mappedData, validation,
          optimizedData, optimizationSummary, exportData, isProcessing, runs,
          finished, call, ret

appVars == <<revision, mode, settings, fileData, mappings, mappedData, validation,
             optimizedData, optimizationSummary, exportData, isProcessing, runs,
             finished>>

vars == <<appVars, call, ret>>

NoCall == [fn |-> "none"]
NoRet == [t |-> "none"]

Row(rowIndex, gclid, email, phone, conversionTime, conversionValue, currency) ==
  [_rowIndex |-> rowIndex, gclid |-> gclid, email |-> email, phone |-> phone,
   firstName |-> Undefined, lastName |-> Undefined, country |-> Undefined,
   zip |-> Undefined, conversionTime |-> conversionTime,
   conversionValue |-> conversionValue, currency |-> currency]

Settings(conversionName, eventName, timezone, defaultCurrency) ==
  [conversionName |-> conversionName, eventName |-> eventName,
   timezone |-> timezone, defaultCurrency |-> defaultCurrency]

\* no run has finished in the last step
NoRun == [t |-> "none"]

\* the useState initial values of App in the revision rev
AppInit(rev) ==
  /\ revision = rev
  /\ mode = MODES.STANDARD
  /\ settings = Settings("", "", "+00:00", "")
  /\ fileData = Null
  /\ mappings = NoMappings
  /\ mappedData = <<>>
  /\ validation = Null
  /\ optimizedData = <<>>
  /\ optimizationSummary = Null
  /\ exportData = <<>>
  /\ isProcessing = FALSE
  /\ runs = <<>>
  /\ finished = NoRun

ModeInputs == {MODES.STANDARD, MODES.EC4L, MODES.FACEBOOK}

SettingsInputs == {Settings("Lead", "", "+00:00", ""), Settings("Lead", "", "+00:00", "usd")}

(***************************************************************************)
(* The inputs of validateRow.  The dates are 91, 90, 64 and 63 days before *)
(* now, one after now and one five days before it.                         *)
(***************************************************************************)
MaxRows == 3
MaxDropped == 1

TimeInputs ==
  {Undefined, Str(""), Str("2024-03-16"), Str("2024-03-17"), Str("2024-04-12"),
   Str("2024-04-13"), Str("2024-07-01 10:30:00"), Str(" 06/10/2024 "), Str("abc"),
   Num(45000)}

ValueInputs ==
  {Undefined, Str(""), Str("  "), Str("50"), Str("$1,234.50"), Str("50abc"),
   Str("abc"), Num(50), Num(0)}

RowInputs(m) ==
  IF m = MODES.STANDARD
  THEN {Row(1, g, Undefined, Undefined, t, v, c) :
          g \in {Undefined, Str(""), Str("  "), Str("abc"), Num(7)},
          t \in TimeInputs, v \in ValueInputs, c \in {Undefined, Str("eur")}}
  ELSE {Row(1, g, e, p, t, v, c) :
          g \in {Undefined, Str("abc")},
          e \in {Undefined, Str(""), Str("a@b.co")},
          p \in {Undefined, Str("  "), Str("5551234567"), Num(5551234)},
          t \in TimeInputs, v \in ValueInputs, c \in {Undefined, Str("eur")}}

(***************************************************************************)
(* The inputs of validateAll: lists of up to MaxRows mapped rows whose     *)
(* _rowIndex rises; it is the position + 1 unless the value filter of      *)
(* processData dropped rows (up to MaxDropped of them).                    *)
(***************************************************************************)
DataRowInputs(m) ==
  IF m = MODES.STANDARD
  THEN {Row(0, g, Undefined, Undefined, t, Str("50"), Undefined) :
          <<g, t>> \in {<<Undefined, Undefined>>, <<Str(""), Str("")>>,
                        <<Str("abc"), Str("")>>, <<Str("abc"), Str("2024-06-10")>>,
                        <<Str("xyz"), Str("2024-06-10")>>}}
       \cup {Row(0, Str("abc"), Undefined, Undefined, Str("2024-06-10"), Num(50),
                 Undefined)}
  ELSE {Row(0, Undefined, e, p, t, Str("50"), Undefined) :
          <<e, p, t>> \in {<<Undefined, Undefined, Undefined>>,
                           <<Str(""), Str(""), Str("")>>,
                           <<Str("a@b.co"), Undefined, Str("")>>,
                           <<Str("a@b.co"), Undefined, Str("2024-06-10")>>,
                           <<Undefined, Str("5551234567"), Str("2024-06-10")>>,
                           <<Str("a@b.co"), Num(5551234), Str("2024-06-10")>>}}

DataSettingsInputs == {Settings("Lead", "", "+00:00", "usd")}

RisingIndices(n) ==
  {ix \in [1..n -> 1..(n + MaxDropped)] : \A i \in 1..(n - 1) : ix[i] < ix[i + 1]}

\* the rows with the indices ix
Indexed(rows, ix) == [i \in DOMAIN rows |-> [rows[i] EXCEPT !._rowIndex = ix[i]]]

InitValidator ==
  /\ AppInit("B")
  /\ ret = NoRet
  /\ \E m \in ModeInputs :
       \/ \E r \in RowInputs(m), s \in SettingsInputs :
            call = [fn |-> "validateRow", row |-> r, mode |-> m, settings |-> s]
       \/ \E n \in 1..MaxRows, s \in DataSettingsInputs :
            \E rows \in [1..n -> DataRowInputs(m)], ix \in RisingIndices(n) :
              call = [fn |-> "validateAll", data |-> Indexed(rows, ix), mode |-> m,
                      settings |-> s]

CallValidateRow ==
  /\ call.fn = "validateRow"
  /\ ret = NoRet
  /\ ret' = IF validateRowThrows(call.row, call.mode, call.settings)
            THEN Threw
            ELSE [threw |-> FALSE,
                  issues |-> validateRow(call.row, call.mode, call.settings)]
  /\ UNCHANGED <<call, appVars>>

CallValidateAll ==
  /\ call.fn = "validateAll"
  /\ ret = NoRet
  /\ ret' = validateAll(call.data, call.mode, call.settings)
  /\ UNCHANGED <<call, appVars>>

NextValidator == CallValidateRow \/ CallValidateAll

SpecValidator == InitValidator /\ [][NextValidator]_vars

(***************************************************************************)
(* App.  A handler, the renders it causes and the effects that run after   *)
(* them are one step: React runs them without taking another event.  The   *)
(* part of processData after `await optimizeAll` is in the same step when  *)
(* optimizeAll waits for no digest (promise jobs alone separate it), and   *)
(* is a step of its own (ProcessFinish) when it waits for crypto.subtle.   *)
(***************************************************************************)
MaxRuns == 1

\* the results parsers deliver to handleFileLoaded: the headers and the rows
FileInputs ==
  {[headers |-> <<"gclid", "date", "value", "amount">>,
    data |-> <<[gclid |-> Str("abc"), date |-> Str("2024-06-10"),
                value |-> Str("$50.00"), amount |-> Num(50)],
               [gclid |-> Str("abc"), date |-> Str("2024-06-10"),
                value |-> Str("0"), amount |-> Num(0)],
               [gclid |-> Str("abc"), date |-> Str("2024-06-10"),
                value |-> Str("1,234.50"), amount |-> Num(20)]>>],
   [headers |-> <<"email", "phone", "date", "value">>,
    data |-> <<[email |-> Str("A@b.co"), phone |-> Str(""),
                date |-> Str("2024-06-10"), value |-> Str("x5")],
               [email |-> Str(""), phone |-> Str("5551234567"),
                date |-> Str("06/10/2024"), value |-> Str("20")]>>]}

\* the texts typed into the fields of SettingsPanel; the panel of revision A
\* has no event name
SettingInputs(rev) ==
  [conversionName |-> {"", " ", "Lead"},
   eventName |-> IF rev = "A" THEN {""} ELSE {"", "purchase"},
   timezone |-> {"+00:00"},
   defaultCurrency |-> {""}]

\* the choices made in the selects of ColumnMapper: <<field, column>>
MappingInputs ==
  {<<"conversionValue", "amount">>, <<"zip", "amount">>}

\* the filter of processData: the rows whose value is present and parses to
\* a number above zero
ValueKept(row) ==
  /\ row.conversionValue # Undefined
  /\ row.conversionValue # Str("")
  /\ LET Positive(numValue) == ~numValue.nan /\ numValue.sign > 0
     IN Positive(parseFloat(keepChars(String(row.conversionValue),
                                      DIGITS \cup {".", "-"})))

\* rows.filter(keep) for the positions in keep
RECURSIVE filter(_, _, _)
filter(rows, keep, i) ==
  IF i > Len(rows) THEN <<>>
  ELSE (IF i \in keep THEN <<rows[i]>> ELSE <<>>) \o filter(rows, keep, i + 1)

\* the optimizeAll of a run that validateAll ended
NotOptimized == [threw |-> TRUE, digests |-> 0]

\* processData, from its start to its end: the mapped rows it stores, what
\* validateAll returns, what optimizeAll settles with, and the mode and the
\* settings of the render it closed over
processData(fd, mp, md, st, rev) ==
  CHOOSE run \in
    UNION {UNION {UNION {
      {[mapped |-> mapped, validationResult |-> validationResult,
        optimizationResult |-> optimizationResult, mode |-> md, settings |-> st] :
         optimizationResult \in {IF validationResult.threw THEN NotOptimized
                                 ELSE optimizeAll(mapped, md, st, rev)}} :
      validationResult \in {validateAll(mapped, md, st)}} :
      mapped \in {filter(all, {i \in 1..Len(all) : ValueKept(all[i])}, 1)}} :
      all \in {applyMappings(fd.data, mp, md)}} : TRUE

\* settingsValid of App, which is nameValid of processData in revision B
settingsValid(md, st, rev) ==
  IF rev = "A" THEN st.conversionName # "" /\ trim(st.conversionName) # ""
  ELSE IF md = MODES.FACEBOOK THEN st.eventName # "" /\ trim(st.eventName) # ""
  ELSE st.conversionName # "" /\ trim(st.conversionName) # ""

\* the test of processData before it shapes the export: revision A reads
\* the truthiness of settings.conversionName
nameValid(md, st, rev) ==
  IF rev = "A" THEN st.conversionName # "" ELSE settingsValid(md, st, rev)

\* the rows a run hands to setExportData
ExportOf(run, rev) ==
  IF run.validationResult.canExport /\ nameValid(run.mode, run.settings, rev)
  THEN transformToGoogleAdsFormat(
         run.optimizationResult.data, run.mode,
         IF rev = "B" /\ run.mode = MODES.FACEBOOK
         THEN run.settings.eventName
         ELSE run.settings.conversionName)
  ELSE <<>>

\* what is kept of a run that ended: whether it raised, whether validateAll
\* returned and with which canExport, its mode and settings, the number of
\* rows optimizeAll returned, the _rowIndex of the rows that went into
\* validateAll and optimizeAll, those of the issues and those of the rows
\* that came out of optimizeAll
Finished(run) ==
  [t |-> "run",
   threw |-> run.optimizationResult.threw,
   validated |-> ~run.validationResult.threw,
   canExport |-> ~run.validationResult.threw /\ run.validationResult.canExport,
   mode |-> run.mode, settings |-> run.settings,
   rows |-> IF run.optimizationResult.threw THEN 0
            ELSE Len(run.optimizationResult.data),
   mappedRows |-> [i \in 1..Len(run.mapped) |-> run.mapped[i]._rowIndex],
   issueRows |->
     IF run.validationResult.threw THEN {}
     ELSE {run.validationResult.issues[k].rowIndex :
             k \in 1..Len(run.validationResult.issues)},
   optimizedRows |->
     IF run.optimizationResult.threw THEN <<>>
     ELSE [i \in 1..Len(run.optimizationResult.data) |->
             run.optimizationResult.data[i]._rowIndex]]

\* the cells of App that processData writes, as a record
Cells ==
  [mappedData |-> mappedData, validation |-> validation,
   optimizedData |-> optimizedData, optimizationSummary |-> optimizationSummary,
   exportData |-> exportData, isProcessing |-> isProcessing, runs |-> runs,
   finished |-> NoRun]

\* processData from `await optimizeAll` to its end, on the cells c
Settle(run, c, rev) ==
  IF run.optimizationResult.threw
  THEN [c EXCEPT !.isProcessing = FALSE, !.finished = Finished(run)]
  ELSE [c EXCEPT !.optimizedData = run.optimizationResult.data,
                 !.optimizationSummary = run.optimizationResult.changeSummary,
                 !.exportData = ExportOf(run, rev),
                 !.isProcessing = FALSE,
                 !.finished = Finished(run)]

\* processData up to `await optimizeAll` on the cells c, and beyond when it
\* has no digest to wait for
Begin(run, c, rev) ==
  IF run.validationResult.threw
  THEN [c EXCEPT !.mappedData = run.mapped, !.isProcessing = FALSE,
                 !.finished = Finished(run)]
  ELSE IF run.optimizationResult.digests = 0
  THEN Settle(run, [c EXCEPT !.mappedData = run.mapped,
                             !.validation = run.validationResult], rev)
  ELSE [c EXCEPT !.mappedData = run.mapped, !.validation = run.validationResult,
                 !.isProcessing = TRUE, !.runs = Append(@, run)]

\* the effect of App after a render with new fileData, mappings, mode or
\* settings
Effect(fd, mp, md, st, c, rev) ==
  IF fd = Null \/ Keys(mp) = {} THEN c
  ELSE CHOOSE cells \in {Begin(run, c, rev) :
                            run \in {processData(fd, mp, md, st, rev)}} : TRUE

\* the cells c become the state; a step that would put more than MaxRuns
\* runs in flight is not taken
Commit(cells) ==
  \E c \in {cells} :
    /\ Len(c.runs) <= MaxRuns
    /\ mappedData' = c.mappedData
    /\ validation' = c.validation
    /\ optimizedData' = c.optimizedData
    /\ optimizationSummary' = c.optimizationSummary
    /\ exportData' = c.exportData
    /\ isProcessing' = c.isProcessing
    /\ runs' = c.runs
    /\ finished' = c.finished

\* autoDetectColumns of the headers of each file in each mode, computed once
Detected ==
  {[headers |-> headers, mode |-> md, mappings |-> autoDetectColumns(headers, md)] :
     headers \in {result.headers : result \in FileInputs}, md \in ModeInputs}

\* the effect of ColumnMapper after a render with new headers or a new mode
DetectedMappings(headers, md) ==
  IF Len(headers) > 0
  THEN (CHOOSE d \in Detected : d.headers = headers /\ d.mode = md).mappings
  ELSE NoMappings

\* handleFileLoaded(result).  The file input is disabled while the settings
\* are not valid; a file dropped on the zone reaches handleFile all the same.
HandleFileLoaded ==
  \E result \in FileInputs :
    \E detected \in {DetectedMappings(result.headers, mode)} :
      /\ fileData' = result
      /\ mappings' = detected
      /\ Commit(Effect(result, detected, mode, settings,
                       [Cells EXCEPT !.mappedData = <<>>, !.validation = Null,
                                     !.optimizedData = <<>>,
                                     !.optimizationSummary = Null,
                                     !.exportData = <<>>],
                       revision))
      /\ UNCHANGED <<revision, mode, settings, call, ret>>

\* SettingsPanel: onChange({ ...settings, [field]: value })
SetSettings ==
  \E field \in DOMAIN SettingInputs(revision) :
    \E value \in SettingInputs(revision)[field] \ {settings[field]} :
      /\ settings' = [settings EXCEPT ![field] = value]
      /\ Commit(Effect(fileData, mappings, mode, [settings EXCEPT ![field] = value],
                       Cells, revision))
      /\ UNCHANGED <<revision, mode, fileData, mappings, call, ret>>

\* handleModeChange(newMode), from one of the three buttons of ModeSelector.
\* ColumnMapper detects the columns again when the mode is another one.
HandleModeChange ==
  \E newMode \in ModeInputs :
    \E detected \in {IF fileData # Null /\ newMode # mode
                      THEN DetectedMappings(fileData.headers, newMode)
                      ELSE NoMappings} :
      /\ mode' = newMode
      /\ mappings' = detected
      /\ Commit(Effect(fileData, detected, newMode, settings,
                       [Cells EXCEPT !.validation = Null, !.optimizedData = <<>>,
                                     !.exportData = <<>>],
                       revision))
      /\ UNCHANGED <<revision, settings, fileData, call, ret>>

\* the button "Remove file"
RemoveFile ==
  /\ fileData # Null
  /\ fileData' = Null
  /\ mappings' = NoMappings
  /\ Commit([Cells EXCEPT !.validation = Null, !.optimizedData = <<>>,
                          !.exportData = <<>>])
  /\ UNCHANGED <<revision, mode, settings, call, ret>>

\* handleMappingChange(fieldName, sourceColumn) of ColumnMapper: a select of
\* a field of the mode takes another of its options
HandleMappingChange ==
  \E choice \in MappingInputs :
    LET fieldName == choice[1]
        sourceColumn == choice[2]
        shown == IF mappings[fieldName].t = "string" THEN mappings[fieldName].s ELSE ""
        changed ==
          [mappings EXCEPT ![fieldName] =
             IF sourceColumn = "" THEN Undefined ELSE Str(sourceColumn)]
    IN /\ fileData # Null
       /\ InSeq(fieldName, getFieldsForMode(mode))
       /\ sourceColumn = "" \/ InSeq(sourceColumn, fileData.headers)
       /\ sourceColumn # shown
       /\ mappings' = changed
       /\ Commit(Effect(fileData, changed, mode, settings, Cells, revision))
       /\ UNCHANGED <<revision, mode, settings, fileData, call, ret>>

\* the row indices of the errors of the validation on display
errorRowIndices ==
  IF validation = Null THEN {}
  ELSE {validation.issues[k].rowIndex :
          k \in {n \in 1..Len(validation.issues) : validation.issues[n].type = "error"}}

\* handleRemoveErrorRows, the callback App hands to ValidationResults, which
\* is on display when there is a validation and no processing
HandleRemoveErrorRows ==
  /\ validation # Null
  /\ ~isProcessing
  /\ fileData # Null
  /\ errorRowIndices # {}
  /\ \E filtered \in {[fileData EXCEPT
                          !.data = filter(fileData.data,
                                          (1..Len(fileData.data)) \ errorRowIndices,
                                          1)]} :
       /\ fileData' = filtered
       /\ Commit(Effect(filtered, mappings, mode, settings, Cells, revision))
  /\ UNCHANGED <<revision, mode, settings, mappings, call, ret>>

\* optimizeAll settles in a run that waited for digests, and processData
\* runs to its end with the mode and the settings it closed over
ProcessFinish ==
  \E i \in 1..Len(runs) :
    /\ Commit(Settle(runs[i],
                     [Cells EXCEPT !.runs = SubSeq(runs, 1, i - 1)
                                              \o SubSeq(runs, i + 1, Len(runs))],
                     revision))
    /\ UNCHANGED <<revision, mode, settings, fileData, mappings, call, ret>>

Init ==
  /\ \E rev \in REVISIONS : AppInit(rev)
  /\ call = NoCall
  /\ ret = NoRet

Next ==
  \/ HandleFileLoaded
  \/ SetSettings
  \/ HandleModeChange
  \/ RemoveFile
  \/ HandleMappingChange
  \/ HandleRemoveErrorRows
  \/ ProcessFinish

Spec == Init /\ [][Next]_vars

(***************************************************************************)
(* The functions of optimizer.js and columnMapper.js, called one at a      *)
(* time on one input, in either revision of optimizer.js.                  *)
(***************************************************************************)
\* the conversion times handed to optimizeDate: absent, blank, a number, a
\* date with no time (one of them today), dates with a time, with an offset
\* or Z, in the output form of either revision, with an hour and an offset
\* but no minutes, with a time no clock shows, and a text that is no date
DateInputs ==
  {Undefined, Str(""), Num(45000), Str("abc"),
   Str("2024-06-10"), Str("2024-06-15"), Str(" 06/10/2024 "), Str("10.06.2024"),
   Str("2024-06-10 10:30"), Str("2024-06-10 10:30:45"),
   Str("2024-06-10T10:30:45Z"), Str("2024-06-10T10:30:45+05:30"),
   Str("2024-06-10 10:30:45+00:00"), Str("2024-06-10T10:30:45-05:00"),
   Str("2024-06-10T10+05:30"), Str("2024-06-10Z"), Str("2024-06-10 25:00:00")}

\* the default timezone of the settings
TimezoneInputs == {"+00:00", "-05:00"}

\* two digests as a file may hold them: in lower case and in upper case
LowerDigest == "00112233445566778899aabbccddeeff00112233445566778899aabbccddeeff"
UpperDigest == "00112233445566778899AABBCCDDEEFF00112233445566778899AABBCCDDEEFF"

\* the email cells: absent, empty, blank, a number, spellings of one gmail
\* account, addresses of another domain, a text without @
EmailInputs ==
  {Undefined, Str(""), Str("  "), Str(" \t"), Num(5),
   Str("jdoe@gmail.com"), Str("J.Doe+promo@gmail.com"), Str(" J.DOE@Gmail.com "),
   Str("j.d.o.e+a+b@gmail.com"), Str("jd.oe@googlemail.com"),
   Str("J.Doe+promo@b.co"), Str(" j.doe@B.co"), Str("jdoe@b.co"), Str("nodomain")}

\* the phone cells: absent, empty, blank, a number, and texts of each case
\* of normalizePhone, with and without a leading +
PhoneInputs ==
  {Undefined, Str(""), Str("  "), Str(" \t"), Num(5551234),
   Str("+44 20 7946 0958"), Str("+15551234567"), Str("(555) 123-4567"),
   Str("5551234567"), Str("1-555-123-4567"), Str("25551234567"),
   Str("+12345"), Str("12345"), Str("555 1234"), Str("+"), Str("abc")}

NameInputs ==
  {Undefined, Str(""), Str("  "), Str(" \t"), Num(7),
   Str("Jo"), Str(" O.Neil  jr "), Str("..")}

FieldTypeInputs == {"email", "phone", "firstName", "lastName", "zip"}

\* the rows handed to optimizeRow: each field of the user absent, in clear
\* or already a digest
PiiRowInputs ==
  {[Row(1, Undefined, e, p, Str("2024-06-10"), Str("50"), Undefined)
      EXCEPT !.firstName = f, !.lastName = l] :
     e \in {Undefined, Str("A@b.co"), Str(LowerDigest), Str(UpperDigest)},
     p \in {Undefined, Str("5551234567"), Str(LowerDigest), Num(5551234)},
     f \in {Undefined, Str("Jo"), Str(UpperDigest)},
     l \in {Undefined, Str("Doe"), Str(LowerDigest)}}

\* the value cells handed to optimizeValue: absent, empty, blank, numbers,
\* plain numbers, currency symbols, grouping by comma and by space with
\* three digits and with more, decimal commas, and a text that is no number
OptimizeValueInputs ==
  {Undefined, Str(""), Str("  "), Num(50), Num(0),
   Str("50"), Str(" 50.00 "), Str("$50.00"), Str("$1,234.50"), Str("1.234,56"),
   Str("1,234,567"), Str("1 234"), Str("1,2345"), Str("1 2345"), Str("12,5"),
   Str("12,50"), Str("12,500"), Str("€ 9,99"), Str("1 2"), Str(",500"), Str("abc")}

\* rows of Standard mode with a currency cell: absent, empty, blank, in
\* lower case with whitespace around it, in upper case
CurrencyRowInputs ==
  {Row(1, Str("abc"), Undefined, Undefined, Str("2024-06-10"), Str("50"), c) :
     c \in {Undefined, Str(""), Str("  "), Str(" eur "), Str("EUR"), Str("usd")}}

\* the settings with no default currency, one in lower and one in upper case
CurrencySettingsInputs ==
  {Settings("Lead", "", "+00:00", d) : d \in {"", "usd", "GBP"}}

\* the header rows handed to autoDetectColumns: the example of the
\* documentation, two headers for one field in either order, headers that
\* match nothing, a first column without a name, a header without letters
\* or digits, no header at all
HeaderInputs ==
  {<<"Date", "Email", "date_created">>, <<"date_created", "Date">>,
   <<"gclid", "date", "value", "amount">>, <<"Order Value", "E-Mail", "Tel">>,
   <<"x", "y">>, <<"", "gclid", "date">>, <<"#", "gclid">>, <<>>}

\* the files of one row handed to processData in Standard mode: the row of
\* the documented scenario, and rows of a date that needs no change but the
\* offset with values as files hold them: plain, grouped, with a decimal
\* comma, with a unit after the number, zero, no number, a number cell
ScenarioInputs ==
  {[headers |-> <<"gclid", "date", "value">>,
    data |-> <<[gclid |-> Str("abc123"), date |-> Str("2024-01-15"),
                value |-> Str("$50.00")]>>]}
  \cup
  {[headers |-> <<"gclid", "date", "value">>,
    data |-> <<[gclid |-> Str("abc123"), date |-> Str("2024-06-10 10:30:45"),
                value |-> v]>>] :
     v \in {Str("50"), Str("1,234.50"), Str("1.234,56"), Str("12,50"), Str("50abc"),
            Str("0"), Str("abc"), Num(50)}}

ScenarioSettingsInputs ==
  {Settings("Lead", "", "+00:00", "USD"), Settings("Lead", "", "-05:00", "usd")}

InitOptimizer ==
  /\ \E rev \in REVISIONS : AppInit(rev)
  /\ ret = NoRet
  /\ \/ \E d \in DateInputs, tz \in TimezoneInputs :
          call = [fn |-> "optimizeDate", dateStr |-> d, defaultTimezone |-> tz]
     \/ \E v \in OptimizeValueInputs : call = [fn |-> "optimizeValue", value |-> v]
     \/ \E h \in HeaderInputs, m \in {MODES.STANDARD, MODES.EC4L} :
          call = [fn |-> "autoDetectColumns", headers |-> h, mode |-> m]
     \/ \E f \in ScenarioInputs, s \in ScenarioSettingsInputs :
          call = [fn |-> "processData", fileData |-> f,
                  mappings |-> autoDetectColumns(f.headers, MODES.STANDARD),
                  mode |-> MODES.STANDARD, settings |-> s]
     \/ \E e \in EmailInputs : call = [fn |-> "normalizeEmail", email |-> e]
     \/ \E p \in PhoneInputs : call = [fn |-> "normalizePhone", phone |-> p]
     \/ \E n \in NameInputs : call = [fn |-> "normalizeName", name |-> n]
     \/ \E v \in EmailInputs \cup PhoneInputs \cup NameInputs, f \in FieldTypeInputs :
          call = [fn |-> "hashField", value |-> v, fieldType |-> f]
     \/ \E r \in CurrencyRowInputs, s \in CurrencySettingsInputs :
          call = [fn |-> "optimizeRow", row |-> r, mode |-> MODES.STANDARD,
                  settings |-> s]
     \/ \E r \in PiiRowInputs, m \in {MODES.STANDARD, MODES.EC4L} :
          call = [fn |-> "optimizeRow", row |-> r, mode |-> m,
                  settings |-> Settings("Lead", "", "+00:00", "usd")]

CallOptimizeDate ==
  /\ call.fn = "optimizeDate"
  /\ ret = NoRet
  /\ ret' = optimizeDate(call.dateStr, call.defaultTimezone, revision)
  /\ UNCHANGED <<call, appVars>>

CallOptimizeValue ==
  /\ call.fn = "optimizeValue"
  /\ ret = NoRet
  /\ ret' = optimizeValue(call.value, revision)
  /\ UNCHANGED <<call, appVars>>

CallAutoDetectColumns ==
  /\ call.fn = "autoDetectColumns"
  /\ ret = NoRet
  /\ ret' = [threw |-> FALSE, value |-> autoDetectColumns(call.headers, call.mode)]
  /\ UNCHANGED <<call, appVars>>

\* processData on its own: it raises (and is caught), or stores the
\* validation report, what optimizeAll settled with and the export rows
CallProcessData ==
  /\ call.fn = "processData"
  /\ ret = NoRet
  /\ \E run \in {processData(call.fileData, call.mappings, call.mode,
                              call.settings, revision)} :
       ret' = IF run.optimizationResult.threw THEN Threw
              ELSE [threw |-> FALSE,
                    validationResult |-> run.validationResult,
                    optimizationResult |-> run.optimizationResult,
                    exportData |-> ExportOf(run, revision)]
  /\ UNCHANGED <<call, appVars>>

\* a function of a string on a cell: '' for a falsy cell (if (!x) return
\* ''), a raise for a number (it has no toLowerCase and no trim)
CallNormalizeEmail ==
  /\ call.fn = "normalizeEmail"
  /\ ret = NoRet
  /\ ret' = IF ~Truthy(call.email) THEN [threw |-> FALSE, value |-> ""]
            ELSE IF call.email.t # "string" THEN Threw
            ELSE [threw |-> FALSE, value |-> normalizeEmail(call.email.s)]
  /\ UNCHANGED <<call, appVars>>

\* normalizePhone(phone), as hashField calls it: defaultCountryCode = '1'
CallNormalizePhone ==
  /\ call.fn = "normalizePhone"
  /\ ret = NoRet
  /\ ret' = IF ~Truthy(call.phone) THEN [threw |-> FALSE, value |-> ""]
            ELSE IF call.phone.t # "string" THEN Threw
            ELSE [threw |-> FALSE, value |-> normalizePhone(call.phone.s, "1")]
  /\ UNCHANGED <<call, appVars>>

CallNormalizeName ==
  /\ call.fn = "normalizeName"
  /\ ret = NoRet
  /\ ret' = IF ~Truthy(call.name) THEN [threw |-> FALSE, value |-> ""]
            ELSE IF call.name.t # "string" THEN Threw
            ELSE [threw |-> FALSE, value |-> normalizeName(call.name.s)]
  /\ UNCHANGED <<call, appVars>>

CallHashField ==
  /\ call.fn = "hashField"
  /\ ret = NoRet
  /\ ret' = IF ~Truthy(call.value) THEN [threw |-> FALSE, value |-> "", digests |-> 0]
            ELSE IF call.value.t # "string" THEN Threw
            ELSE [threw |-> FALSE] @@ hashField(call.value.s, call.fieldType)
  /\ UNCHANGED <<call, appVars>>

CallOptimizeRow ==
  /\ call.fn = "optimizeRow"
  /\ ret = NoRet
  /\ ret' = optimizeRow(call.row, call.mode, call.settings, revision)
  /\ UNCHANGED <<call, appVars>>

NextOptimizer ==
  \/ CallOptimizeDate
  \/ CallOptimizeValue
  \/ CallAutoDetectColumns
  \/ CallProcessData
  \/ CallNormalizeEmail
  \/ CallNormalizePhone
  \/ CallNormalizeName
  \/ CallHashField
  \/ CallOptimizeRow

SpecOptimizer == InitOptimizer /\ [][NextOptimizer]_vars

(***************************************************************************)
(* optimizeAll, one await at a time.  call holds the arguments; ret holds  *)
(* the progress of the loop: the position i of the row under               *)
(* optimisation, the position k of the next field of that row to look at,  *)
(* the digests awaited (pending) and the hashing steps begun so far        *)
(* (started), each as <<row, field>>, and the result accumulated (acc).    *)
(***************************************************************************)
MaxAllRows == 2

HASHED_FIELDS == <<"email", "phone", "firstName", "lastName">>

\* rows with four, one and no value to hash, and one with an email only
AllRowInputs ==
  {[Row(0, Undefined, e, p, Str("2024-06-10"), v, Undefined)
      EXCEPT !.firstName = f, !.lastName = l] :
     <<e, p, f, l, v>> \in
       {<<Str("A@b.co"), Str("5551234567"), Str("Jo"), Str("Doe"), Str("$50.00")>>,
        <<Str(LowerDigest), Undefined, Str("Jo"), Str(UpperDigest), Str("50")>>,
        <<Undefined, Undefined, Undefined, Undefined, Str("50")>>,
        <<Str("a@b.co"), Undefined, Undefined, Undefined, Str("1,234.50")>>}}

\* the loop has not returned
Running(i, k, pending, started, acc) ==
  [t |-> "running", threw |-> FALSE, i |-> i, k |-> k, pending |-> pending,
   started |-> started, acc |-> acc]

InitOptimizeAll ==
  /\ \E rev \in REVISIONS : AppInit(rev)
  /\ \E n \in 1..MaxAllRows, m \in {MODES.STANDARD, MODES.EC4L} :
       \E rows \in [1..n -> AllRowInputs] :
         call = [fn |-> "optimizeAll",
                 data |-> Indexed(rows, [i \in 1..n |-> i]),
                 mode |-> m, settings |-> Settings("Lead", "", "+00:00", "usd")]
  /\ ret = Running(1, 1, {}, <<>>, [threw |-> FALSE, digests |-> 0, data |-> <<>>,
                                    changes |-> <<>>,
                                    changeSummary |-> [c \in {} |-> 0]])

\* a continuation that runs as if its promise had settled at once
AwaitedMutant(pending) == TRUE

\* await: the function goes on when the promise it waits for has settled
Awaited(pending) == pending = {}

\* if (row[field] && !isAlreadyHashed(row[field])) for the field at k
NeedsHash(row, md, k) ==
  /\ md = MODES.EC4L
  /\ Truthy(row[HASHED_FIELDS[k]])
  /\ ~isAlreadyHashed(row[HASHED_FIELDS[k]].s)

\* the position, from k on, of the next field of the row to hash; 5 if none
NextHash(row, md, k) ==
  IF \E j \in k..4 : NeedsHash(row, md, j)
  THEN CHOOSE j \in k..4 : NeedsHash(row, md, j) /\ \A h \in k..(j - 1) : ~NeedsHash(row, md, h)
  ELSE 5

\* optimizeRow reaches `await hashField(row[field], field)`
StartHash ==
  /\ call.fn = "optimizeAll" /\ ret.t = "running"
  /\ ret.i <= Len(call.data)
  /\ Awaited(ret.pending)
  /\ \E j \in {NextHash(call.data[ret.i], call.mode, ret.k)} :
       /\ j <= 4
       /\ ret' = [ret EXCEPT !.k = j + 1,
                             !.pending = @ \cup {<<ret.i, j>>},
                             !.started = Append(@, <<ret.i, j>>)]
  /\ UNCHANGED <<call, appVars>>

\* crypto.subtle.digest settles
FinishHash ==
  /\ call.fn = "optimizeAll" /\ ret.t = "running"
  /\ \E h \in ret.pending : ret' = [ret EXCEPT !.pending = @ \ {h}]
  /\ UNCHANGED <<call, appVars>>

\* optimizeRow returns and the loop pushes its result
FinishRow ==
  /\ call.fn = "optimizeAll" /\ ret.t = "running"
  /\ ret.i <= Len(call.data)
  /\ Awaited(ret.pending)
  /\ NextHash(call.data[ret.i], call.mode, ret.k) = 5
  /\ \E result \in {optimizeRow(call.data[ret.i], call.mode, call.settings, revision)} :
       ret' = [ret EXCEPT
                 !.i = @ + 1, !.k = 1,
                 !.acc = [threw |-> FALSE,
                          digests |-> @.digests + result.digests,
                          data |-> Append(@.data, result.data),
                          changes |-> @.changes
                                        \o Spread(result.changes,
                                                  call.data[ret.i]._rowIndex),
                          changeSummary |-> Count(@.changeSummary, result.changes)]]
  /\ UNCHANGED <<call, appVars>>

\* the loop is over: return { data, changes, changeSummary }
ReturnAll ==
  /\ call.fn = "optimizeAll" /\ ret.t = "running"
  /\ ret.i > Len(call.data)
  /\ ret' = [t |-> "done", threw |-> FALSE, started |-> ret.started,
             pending |-> ret.pending, result |-> ret.acc]
  /\ UNCHANGED <<call, appVars>>

NextOptimizeAll == StartHash \/ FinishHash \/ FinishRow \/ ReturnAll

SpecOptimizeAll == InitOptimizeAll /\ [][NextOptimizeAll]_vars

(***************************************************************************)
(* Properties of the validator, under SpecValidator.                       *)
(***************************************************************************)
\* the call of fn has returned a result
Returned(fn) == call.fn = fn /\ ret # NoRet /\ ~ret.threw

\* a cell that is absent or holds only whitespace
CellBlank(c) == c = Undefined \/ (c.t = "string" /\ trim(c.s) = "")

CellText(c) == IF CellBlank(c) THEN "" ELSE String(c)

IsDuplicateWarning(issue) ==
  issue.type = "warning" /\ issue.message = VALIDATION_MESSAGES.warnings.possibleDuplicate

DuplicateWarnings(issues) == {k \in 1..Len(issues) : IsDuplicateWarning(issues[k])}

\* the issues of one kind on one field of the row with one rowIndex
IssuesOn(issues, type, field, rowIndex) ==
  {k \in 1..Len(issues) :
     /\ issues[k].type = type
     /\ issues[k].field = field
     /\ issues[k].rowIndex = rowIndex}

\* the composite key the specification names for a mode
CompositeKey(row, m) ==
  IF m = MODES.EC4L
  THEN <<CellText(row.email), CellText(row.phone), CellText(row.conversionTime)>>
  ELSE <<CellText(row.gclid), CellText(row.conversionTime)>>

KeyEmpty(row, m) == \A n \in DOMAIN CompositeKey(row, m) : CompositeKey(row, m)[n] = ""

\* the positions of the rows that repeat the key of an earlier row
Repeats(data, m) ==
  {i \in 1..Len(data) :
     \E j \in 1..(i - 1) : CompositeKey(data[j], m) = CompositeKey(data[i], m)}

\* C2: every issue that validateAll returns, a duplicate warning included,
\* carries the _rowIndex of the row it is about: an issue of validateRow that
\* of a row for which validateRow gives it, a duplicate warning that of a row
\* whose key an earlier row has.
C2_IssuesCarryRowIndex ==
  Returned("validateAll") =>
    \A k \in 1..Len(ret.issues) :
      \E i \in 1..Len(call.data) :
        /\ call.data[i]._rowIndex = ret.issues[k].rowIndex
        /\ IF IsDuplicateWarning(ret.issues[k])
           THEN \E j \in 1..(i - 1) :
                  DuplicateKey(call.data[j], call.mode)
                    = DuplicateKey(call.data[i], call.mode)
           ELSE \E n \in 1..Len(validateRow(call.data[i], call.mode, call.settings)) :
                  validateRow(call.data[i], call.mode, call.settings)[n] = ret.issues[k]

\* C3: over rows whose composite keys are not empty, validateAll gives one
\* duplicate warning for each row that repeats the key of an earlier row (k - 1
\* for k rows of one key), and none carries the rowIndex of a first occurrence.
C3_OnlyRepeatsFlagged ==
  (Returned("validateAll") /\ \A i \in 1..Len(call.data) : ~KeyEmpty(call.data[i], call.mode))
    => /\ Cardinality(DuplicateWarnings(ret.issues))
            = Cardinality(Repeats(call.data, call.mode))
       /\ \A k \in DuplicateWarnings(ret.issues) :
            \A i \in 1..Len(call.data) :
              call.data[i]._rowIndex = ret.issues[k].rowIndex
                => i \in Repeats(call.data, call.mode)

\* C4: in Standard and in EnhancedForLeads mode, rows whose identifier fields
\* and conversionTime are all undefined or blank give no duplicate warning.
C4_EmptyKeySkipped ==
  (/\ Returned("validateAll")
   /\ call.mode \in {MODES.STANDARD, MODES.EC4L}
   /\ \A i \in 1..Len(call.data) : KeyEmpty(call.data[i], call.mode))
    => DuplicateWarnings(ret.issues) = {}

RECURSIVE NumberOfKind(_, _)
NumberOfKind(issues, type) ==
  IF issues = <<>> THEN 0
  ELSE (IF Head(issues).type = type THEN 1 ELSE 0) + NumberOfKind(Tail(issues), type)

\* C5: validateAll returns canExport = true exactly when its issue list holds
\* no Error; the summary counts the issues of each kind and the rows.
C5_CanExportIffNoError ==
  Returned("validateAll") =>
    /\ ret.canExport <=> ~(\E k \in 1..Len(ret.issues) : ret.issues[k].type = "error")
    /\ ret.summary.errors = NumberOfKind(ret.issues, "error")
    /\ ret.summary.warnings = NumberOfKind(ret.issues, "warning")
    /\ ret.summary.info = NumberOfKind(ret.issues, "info")
    /\ ret.summary.total = Len(call.data)

\* a row without an issue of kind Error in the result
RowWithoutError(i) ==
  ~(\E k \in 1..Len(ret.issues) :
      ret.issues[k].type = "error" /\ ret.issues[k].rowIndex = call.data[i]._rowIndex)

\* one Error among several rows, the others valid, blocks the export
C5_Witness ==
  /\ Returned("validateAll")
  /\ Len(call.data) = MaxRows
  /\ NumberOfKind(ret.issues, "error") = 1
  /\ Cardinality({i \in 1..Len(call.data) : RowWithoutError(i)}) = MaxRows - 1
  /\ ~ret.canExport

\* conversion values that are numeric as they stand
NumericValues == {Str("50"), Str("$1,234.50")}

MissingIdentifierAndTime(row) ==
  /\ CellBlank(row.gclid)
  /\ CellBlank(row.conversionTime)
  /\ row.conversionValue \in NumericValues

\* the Errors of the row with rowIndex are two, on gclid and on conversionTime
TwoErrors(issues, rowIndex) ==
  /\ Cardinality({k \in 1..Len(issues) :
                    issues[k].type = "error" /\ issues[k].rowIndex = rowIndex}) = 2
  /\ Cardinality(IssuesOn(issues, "error", "gclid", rowIndex)) = 1
  /\ Cardinality(IssuesOn(issues, "error", "conversionTime", rowIndex)) = 1

\* C6: in Standard mode a row without click identifier and without conversion
\* time, its value numeric, gets exactly two Errors, one on gclid and one on
\* conversionTime, and a dataset that holds such a row has canExport = false.
C6_MissingIdentifierAndTime ==
  /\ (Returned("validateRow") /\ call.mode = MODES.STANDARD
        /\ MissingIdentifierAndTime(call.row))
       => TwoErrors(ret.issues, call.row._rowIndex)
  /\ (Returned("validateAll") /\ call.mode = MODES.STANDARD)
       => \A i \in 1..Len(call.data) :
            MissingIdentifierAndTime(call.data[i])
              => TwoErrors(ret.issues, call.data[i]._rowIndex) /\ ~ret.canExport

\* such a row among rows that are valid
C6_Witness ==
  /\ Returned("validateAll")
  /\ call.mode = MODES.STANDARD
  /\ Len(call.data) >= 3
  /\ MissingIdentifierAndTime(call.data[2])
  /\ \A i \in {1, 3} : RowWithoutError(i) /\ ~CellBlank(call.data[i].gclid)
  /\ ~ret.canExport

\* the issues of one kind on one field in the result of validateRow
RowIssues(type, field) == IssuesOn(ret.issues, type, field, call.row._rowIndex)

\* C7: validateRow gives a row without click identifier an Error in Standard
\* and in SocialPlatform mode, and in EnhancedForLeads mode it gives the
\* identity Error exactly to a row without email and without phone.
C7_IdentityRequirement ==
  Returned("validateRow") =>
    IF call.mode = MODES.EC4L
    THEN (CellBlank(call.row.email) /\ CellBlank(call.row.phone))
           <=> RowIssues("error", "email") # {}
    ELSE CellBlank(call.row.gclid) => RowIssues("error", "gclid") # {}

\* the threshold the specification names for a mode
WindowDays(m) == IF m = MODES.EC4L THEN 63 ELSE 90

\* C8: a conversion time that parses and lies more than the threshold (90
\* days in Standard and SocialPlatform mode, 63 in EnhancedForLeads mode)
\* before now gets one Warning and no Error; one within the threshold or
\* after now gets no issue.
C8_ConversionWindow ==
  (/\ Returned("validateRow")
   /\ ~CellBlank(call.row.conversionTime)
   /\ tryParseDate(call.row.conversionTime.s) # Null)
    => IF differenceInDays(now, tryParseDate(call.row.conversionTime.s))
            > WindowDays(call.mode)
       THEN /\ Cardinality(RowIssues("warning", "conversionTime")) = 1
            /\ RowIssues("error", "conversionTime") = {}
       ELSE /\ RowIssues("warning", "conversionTime") = {}
            /\ RowIssues("error", "conversionTime") = {}

\* a decimal number: digits with at most one point among them, after an
\* optional sign
IsDecimal(s) ==
  LET Unsigned(u) ==
        LET Fraction(f, whole) ==
              \/ f = "" /\ whole # ""
              \/ /\ f # ""
                 /\ Ch(f, 1) = "."
                 /\ DigitPrefix(Tail(f)) = Tail(f)
                 /\ whole \o Tail(f) # ""
            Split(whole) == Fraction(SubSeq(u, Len(whole) + 1, Len(u)), whole)
        IN Split(DigitPrefix(u))
  IN IF s # "" /\ Ch(s, 1) \in {"+", "-"} THEN Unsigned(Tail(s)) ELSE Unsigned(s)

\* numeric once the currency symbols, the thousands commas and the whitespace
\* are stripped
IsNumericText(s) == IsDecimal(removeChars(s, CURRENCY_SYMBOLS \cup {","} \cup WHITESPACE))

\* C9: validateRow gives a conversion value that is not blank and not numeric
\* an Error on conversionValue, and a conversion value that is absent or
\* blank a Warning and no Error.
C9_NonNumericValue ==
  Returned("validateRow") =>
    IF CellBlank(call.row.conversionValue)
    THEN /\ RowIssues("warning", "conversionValue") # {}
         /\ RowIssues("error", "conversionValue") = {}
    ELSE ~IsNumericText(String(call.row.conversionValue))
           => RowIssues("error", "conversionValue") # {}

\* a cell of the row or of a row of the dataset is a number
HasNumberCell(row) == \E f \in DOMAIN row : f # "_rowIndex" /\ row[f].t = "number"

\* C10: validateRow and validateAll return a result, and raise nothing, for
\* rows with a cell that is a number.
C10_NumberCellsAccepted ==
  /\ (call.fn = "validateRow" /\ ret # NoRet /\ HasNumberCell(call.row)) => ~ret.threw
  /\ (call.fn = "validateAll" /\ ret # NoRet
        /\ \E i \in 1..Len(call.data) : HasNumberCell(call.data[i]))
       => ~ret.threw

(***************************************************************************)
(* Properties of App, under Spec.                                          *)
(***************************************************************************)
\* the name setting the mode of a run requires
RequiredName(run) ==
  IF run.mode = MODES.FACEBOOK THEN run.settings.eventName
  ELSE run.settings.conversionName

\* C1: after a run of processData has ended, exportData holds the export
\* rows of the run (one for each optimized row) when validateAll returned
\* canExport = true and the required name setting (eventName in the
\* social-platform mode, conversionName otherwise) has a character that is
\* not whitespace, and is empty in every other case.
C1_ExportIffValidAndNamed ==
  finished # NoRun =>
    IF finished.validated /\ finished.canExport /\ trim(RequiredName(finished)) # ""
    THEN ~finished.threw /\ Len(exportData) = finished.rows
    ELSE exportData = <<>>

\* C11: a run of processData in which validateAll returned, with Errors or
\* without, has run optimizeAll to its end on the mapped rows: optimizeAll
\* returned one row for each mapped row, in the same order and with the same
\* _rowIndex, and exportData is empty when the report has Errors.
C11_OptimizedWhateverValidation ==
  (finished # NoRun /\ finished.validated) =>
    /\ ~finished.threw
    /\ finished.optimizedRows = finished.mappedRows
    /\ ~finished.canExport => exportData = <<>>

\* a value that is not blank and is a number above zero once the currency
\* symbols, the thousands commas and the whitespace are stripped
PositiveValue(c) ==
  /\ ~CellBlank(c)
  /\ LET Positive(n) == ~n.nan /\ n.sign > 0
     IN Positive(parseFloat(removeChars(String(c),
                                        CURRENCY_SYMBOLS \cup {","} \cup WHITESPACE)))

\* C12: every row processData hands to validateAll and optimizeAll has a
\* conversion value that is not blank and parses to a number above zero,
\* and no issue of the report and no optimized row of a run carries the
\* _rowIndex of a row the value filter dropped.
C12_ValueFilter ==
  /\ \A i \in 1..Len(mappedData) : PositiveValue(mappedData[i].conversionValue)
  /\ finished # NoRun =>
       \A r \in finished.issueRows \cup {finished.optimizedRows[i] :
                                            i \in 1..Len(finished.optimizedRows)} :
         \E i \in 1..Len(finished.mappedRows) : finished.mappedRows[i] = r

(***************************************************************************)
(* Properties of the optimizer, under SpecOptimizer.                       *)
(***************************************************************************)
\* validateRow gives the conversion time no Error: it is a text that is not
\* blank and that tryParseDate reads
PassesValidation(dateStr) ==
  /\ dateStr.t = "string"
  /\ ~CellBlank(dateStr)
  /\ \A k \in 1..Len(validateDate(dateStr.s, 1, MODES.STANDARD)) :
       validateDate(dateStr.s, 1, MODES.STANDARD)[k].type # "error"

\* the text has the form yyyy-mm-dd<sep>HH:mm:ss+HH:mm or ...-HH:mm
TargetShape(s, sep) ==
  /\ Len(s) = 25
  /\ ShapePrefix(s, "dddd-dd-dd" \o sep \o "dd:dd:dd")
  /\ TimezoneSuffix(s)

\* the fields of a text of that form are a month, a day of it, a time of
\* the day and an offset of at most 14 hours
TargetFields(s) ==
  LET n(i, j) == parseInt(SubSeq(s, i, j))
  IN /\ n(6, 7) \in 1..12
     /\ n(9, 10) >= 1
     /\ n(9, 10) <= DaysInMonth(n(1, 4), n(6, 7))
     /\ n(12, 13) <= 23
     /\ n(15, 16) <= 59
     /\ n(18, 19) <= 59
     /\ n(21, 22) <= 14
     /\ n(24, 25) <= 59

\* C13: the conversion time optimizeDate writes for a row that passes
\* validation, with a default timezone of the form +HH:mm or -HH:mm, is
\* yyyy-mm-dd<SEP>HH:mm:ss and an offset, with the one separator of the
\* revision, zero-padded, and its fields are a date, a time and an offset.
C13_TargetGrammar ==
  (Returned("optimizeDate") /\ PassesValidation(call.dateStr))
    => /\ TargetShape(ret.value, Separator(revision))
       /\ TargetFields(ret.value)

\* C14: for a date string tryParseDate reads, optimizeDate applied to the
\* value it returned, with any default offset, returns that value again and
\* reports no change.
C14_DateIdempotent ==
  (/\ Returned("optimizeDate")
   /\ call.dateStr.t = "string"
   /\ tryParseDate(call.dateStr.s) # Null)
    => \A tz \in TimezoneInputs :
         LET Same(again) ==
               ~again.threw /\ again.value = ret.value /\ again.changes = <<>>
         IN Same(optimizeDate(Str(ret.value), tz, revision))

\* a date with no time and no offset was rewritten, with the default offset
\* that is not +00:00
C14_Witness ==
  /\ Returned("optimizeDate")
  /\ call.dateStr = Str("2024-06-10")
  /\ call.defaultTimezone = "-05:00"
  /\ Len(ret.changes) = 3
  /\ endsWith(ret.value, "-05:00")

\* the text without its offset suffix or its final Z
WithoutOffset(s) ==
  IF TimezoneSuffix(s) THEN SubSeq(s, 1, Len(s) - 6)
  ELSE IF endsWith(s, "Z") THEN SubSeq(s, 1, Len(s) - 1)
  ELSE s

\* the time of day written in a text, as HH:mm:ss, or "" when it has none
TimeOfDay(s) ==
  LET At(i) ==
        SubSeq(s, i, i + 4)
          \o (IF ShapePrefix(SubSeq(s, i + 5, Len(s)), ":dd")
              THEN SubSeq(s, i + 5, i + 7) ELSE ":00")
  IN IF TimePositions(s) = {} THEN ""
     ELSE At(CHOOSE i \in TimePositions(s) : \A j \in TimePositions(s) : i <= j)

\* the time optimizeDate gives a date that has none, on any day but today
FixedDefaultTime(rev) == IF rev = "A" THEN "12:00:00" ELSE "23:59:59"

\* C15: for a date string tryParseDate reads, optimizeDate writes the time
\* of day of the string and no TimeDefaulted tag when the string has one,
\* and otherwise writes the one default time of the revision, whatever the
\* date and the clock, and the TimeDefaulted tag.
C15_FixedDefaultTime ==
  (/\ Returned("optimizeDate")
   /\ call.dateStr.t = "string"
   /\ tryParseDate(call.dateStr.s) # Null)
    => LET Kept(time) ==
             IF time # ""
             THEN /\ SubSeq(ret.value, 12, 19) = time
                  /\ ~InSeq(VALIDATION_MESSAGES.info.timeAdded, ret.changes)
             ELSE /\ SubSeq(ret.value, 12, 19) = FixedDefaultTime(revision)
                  /\ InSeq(VALIDATION_MESSAGES.info.timeAdded, ret.changes)
       IN Kept(TimeOfDay(WithoutOffset(trim(call.dateStr.s))))

\* C16: for a date string tryParseDate reads, optimizeDate writes the
\* offset the string ends with (+00:00 for a final Z) and no TimezoneApplied
\* tag, or else the default offset and the TimezoneApplied tag; and the
\* digits of an offset suffix are never written as the time of day.
C16_OffsetOfSource ==
  (/\ Returned("optimizeDate")
   /\ call.dateStr.t = "string"
   /\ tryParseDate(call.dateStr.s) # Null)
    => LET Settled(s, offset, tagged) ==
             /\ offset = (IF TimezoneSuffix(s) THEN SubSeq(s, Len(s) - 5, Len(s))
                          ELSE IF endsWith(s, "Z") THEN "+00:00"
                          ELSE call.defaultTimezone)
             /\ tagged = ~(TimezoneSuffix(s) \/ endsWith(s, "Z"))
             /\ (TimezoneSuffix(s) /\ TimeOfDay(WithoutOffset(s)) = "")
                  => SubSeq(ret.value, 12, 19) # SubSeq(s, Len(s) - 4, Len(s)) \o ":00"
       IN Settled(trim(call.dateStr.s),
                  SubSeq(ret.value, Len(ret.value) - 5, Len(ret.value)),
                  InSeq(VALIDATION_MESSAGES.info.timezoneApplied, ret.changes))

\* a cell that holds 64 hexadecimal digits, of either case
IsDigest(c) ==
  /\ c.t = "string"
  /\ Len(c.s) = 64
  /\ \A i \in 1..64 : Ch(c.s, i) \in Chars("0123456789abcdefABCDEF")

PII_FIELDS == {"email", "phone", "firstName", "lastName"}

\* C17: in EnhancedForLeads mode optimizeRow leaves every digest among
\* email, phone, first name and last name as it is, waits for one digest
\* for each of these fields that holds something else and for none more,
\* adds no hashing tag for a field that held a digest, and returns a row
\* whose optimisation asks for no digest and changes none of these fields.
C17_HashIdempotent ==
  (Returned("optimizeRow") /\ call.mode = MODES.EC4L)
    => LET names == VALIDATION_MESSAGES.info
           Again(again) ==
             /\ ~again.threw
             /\ again.digests = 0
             /\ \A f \in PII_FIELDS : again.data[f] = ret.data[f]
             /\ \A tag \in {names.emailHashed, names.phoneHashed, names.nameHashed} :
                  ~InSeq(tag, again.changes)
       IN /\ \A f \in PII_FIELDS :
               /\ IsDigest(call.row[f]) => ret.data[f] = call.row[f]
               /\ (Truthy(call.row[f]) /\ ~IsDigest(call.row[f]))
                    => IsDigest(ret.data[f]) /\ ret.data[f] # call.row[f]
          /\ ret.digests
               = Cardinality({f \in PII_FIELDS :
                                Truthy(call.row[f]) /\ ~IsDigest(call.row[f])})
          /\ IsDigest(call.row.email) => ~InSeq(names.emailHashed, ret.changes)
          /\ IsDigest(call.row.phone) => ~InSeq(names.phoneHashed, ret.changes)
          /\ (\A f \in {"firstName", "lastName"} :
                IsDigest(call.row[f]) \/ ~Truthy(call.row[f]))
               => ~InSeq(names.nameHashed, ret.changes)
          /\ Again(optimizeRow(ret.data, call.mode, call.settings, revision))

\* a row with a digest in upper case as email and a phone number in clear
\* has been optimized: one digest was awaited, for the phone
C17_Witness ==
  /\ Returned("optimizeRow")
  /\ call.mode = MODES.EC4L
  /\ call.row.email = Str(UpperDigest)
  /\ call.row.phone = Str("5551234567")
  /\ call.row.firstName = Undefined
  /\ call.row.lastName = Undefined
  /\ ret.digests = 1
  /\ InSeq(VALIDATION_MESSAGES.info.phoneHashed, ret.changes)

\* spellings of the gmail account jdoe: letter case, surrounding whitespace,
\* dots in the local part and +alias suffixes
GmailSpellings ==
  {"jdoe@gmail.com", "J.Doe+promo@gmail.com", " J.DOE@Gmail.com ",
   "j.d.o.e+a+b@gmail.com"}

\* the local part of an address and the rest of it, from the @ on
LocalPart(address) == SubSeq(address, 1, indexOf(address, "@") - 1)
FromAt(address) == SubSeq(address, indexOf(address, "@"), Len(address))

\* C18: normalizeEmail maps every spelling of a gmail account to the one
\* canonical address, hashField gives each spelling the digest of that
\* address, and for an address of another domain normalizeEmail drops the
\* local part from its first + on and keeps the dots.
C18_EmailCanonical ==
  /\ (Returned("normalizeEmail") /\ call.email.t = "string"
        /\ call.email.s \in GmailSpellings)
       => ret.value = "jdoe@gmail.com"
  /\ (Returned("hashField") /\ call.fieldType = "email"
        /\ call.value.t = "string" /\ call.value.s \in GmailSpellings)
       => ret.value = sha256Hash("jdoe@gmail.com") /\ ret.digests = 1
  /\ (Returned("normalizeEmail") /\ call.email.t = "string"
        /\ indexOf(call.email.s, "@") # 0
        /\ ~(\E d \in {"gmail.com", "googlemail.com"} :
               endsWith(trim(toLowerCase(call.email.s)), "@" \o d)))
       => LET Cut(address, plus) ==
                (IF plus = 0 THEN LocalPart(address)
                 ELSE SubSeq(address, 1, plus - 1)) \o FromAt(address)
              Expected(address) == Cut(address, indexOf(LocalPart(address), "+"))
          IN ret.value = Expected(trim(toLowerCase(call.email.s)))

\* the address of the claim has been normalized, to jdoe@gmail.com
C18_Witness ==
  /\ Returned("normalizeEmail")
  /\ call.email = Str("J.Doe+promo@gmail.com")
  /\ ret.value = "jdoe@gmail.com"

\* the cell a call of one of the four functions was given
Argument ==
  IF call.fn = "normalizeEmail" THEN call.email
  ELSE IF call.fn = "normalizePhone" THEN call.phone
  ELSE IF call.fn = "normalizeName" THEN call.name
  ELSE call.value

\* C19: normalizeEmail, normalizePhone, normalizeName and hashField return
\* the empty string, and do not raise, for an input that is absent, empty
\* or made of whitespace only.
C19_BlankGivesEmpty ==
  (/\ call.fn \in {"normalizeEmail", "normalizePhone", "normalizeName", "hashField"}
   /\ ret # NoRet
   /\ CellBlank(Argument))
    => ~ret.threw /\ ret.value = ""

\* the country calling code of every call of normalizePhone in the pipeline
PipelineCountryCode == "1"

\* a phone text has been normalized
PhoneNormalized ==
  Returned("normalizePhone") /\ call.phone.t = "string" /\ call.phone.s # ""

\* C20 as stated: + and at least 10 digits give + and the digits, 10 digits
\* without + give +, the country code and the digits, 11 digits beginning
\* with the country code give + and the digits, and every other input gives
\* +, the country code and the digits that remain.
C20_FourCases ==
  LET Case(plus, digits) ==
        ret.value =
          IF plus /\ Len(digits) >= 10 THEN "+" \o digits
          ELSE IF ~plus /\ Len(digits) = 10
          THEN "+" \o PipelineCountryCode \o digits
          ELSE IF Len(digits) = 11 /\ startsWith(digits, PipelineCountryCode)
          THEN "+" \o digits
          ELSE "+" \o PipelineCountryCode \o digits
  IN PhoneNormalized
       => Case(startsWith(trim(call.phone.s), "+"), keepChars(call.phone.s, DIGITS))

\* C20 as amended: the first three cases as stated; every other input gives
\* + and the digits that remain when it began with +, and +, the country
\* code and the digits that remain when it did not.
C20_PhoneCases ==
  LET Case(plus, digits) ==
        ret.value =
          IF plus /\ Len(digits) >= 10 THEN "+" \o digits
          ELSE IF ~plus /\ Len(digits) = 10
          THEN "+" \o PipelineCountryCode \o digits
          ELSE IF Len(digits) = 11 /\ startsWith(digits, PipelineCountryCode)
          THEN "+" \o digits
          ELSE IF plus THEN "+" \o digits
          ELSE "+" \o PipelineCountryCode \o digits
  IN PhoneNormalized
       => Case(startsWith(trim(call.phone.s), "+"), keepChars(call.phone.s, DIGITS))

\* a text with + and fewer than 10 digits has been normalized, to + and
\* its digits
C20_Witness ==
  /\ Returned("normalizePhone")
  /\ call.phone = Str("+12345")
  /\ ret.value = "+12345"

\* the text without every ',' or whitespace character that follows a digit
\* and is followed by three digits and no fourth
RECURSIVE WithoutGroupingOfThree(_, _)
WithoutGroupingOfThree(s, i) ==
  IF i > Len(s) THEN ""
  ELSE (IF /\ Ch(s, i) \in {","} \cup WHITESPACE
           /\ i > 1 /\ Ch(s, i - 1) \in DIGITS
           /\ i + 3 <= Len(s)
           /\ \A k \in 1..3 : Ch(s, i + k) \in DIGITS
           /\ (i + 4 <= Len(s) => Ch(s, i + 4) \notin DIGITS)
        THEN ""
        ELSE Ch(s, i)) \o WithoutGroupingOfThree(s, i + 1)

\* digits, one comma and one or two final digits
DigitsCommaFraction(s) ==
  \E k \in 2..Len(s) :
    /\ Ch(s, k) = ","
    /\ Len(s) - k \in {1, 2}
    /\ \A i \in (1..Len(s)) \ {k} : Ch(s, i) \in DIGITS

\* C21: optimizeValue of a text removes the currency symbols, removes a ','
\* or whitespace character as a grouping separator only after a digit and
\* before exactly three digits, turns the comma into '.' only when what is
\* left is digits, one comma and one or two final digits, removes the
\* whitespace left, and emits the ValueCleaned tag exactly when the result
\* differs from the trimmed input.
C21_GroupingOfThree ==
  (/\ Returned("optimizeValue")
   /\ call.value.t = "string"
   /\ trim(call.value.s) # "")
    => LET Point(s) ==
             IF DigitsCommaFraction(s)
             THEN SubSeq(s, 1, indexOf(s, ",") - 1) \o "."
                    \o SubSeq(s, indexOf(s, ",") + 1, Len(s))
             ELSE s
           Expected(original) ==
             removeChars(
               Point(WithoutGroupingOfThree(
                       removeChars(original, CURRENCY_SYMBOLS), 1)),
               WHITESPACE)
       IN /\ ret.value = Expected(trim(call.value.s))
          /\ InSeq(VALIDATION_MESSAGES.info.valueFixed, ret.changes)
               <=> ret.value # trim(call.value.s)

\* C22: optimizeRow gives a row with a currency that is not blank that
\* currency, trimmed and in upper case, whatever the default currency is,
\* and the export row shows it; a row without currency gets the default
\* currency in upper case, or '' when there is none; and the currency tag
\* is there exactly when the trimmed currency of the row was not in upper
\* case.
C22_RowCurrency ==
  Returned("optimizeRow")
    => LET tag == VALIDATION_MESSAGES.info.currencyFixed
           exported ==
             transformToGoogleAdsFormat(<<ret.data>>, call.mode,
                                        call.settings.conversionName)
           Is(text, tagged) ==
             /\ ret.data.currency = Str(text)
             /\ exported[1]["Conversion Currency"] = Str(text)
             /\ InSeq(tag, ret.changes) <=> tagged
       IN IF CellBlank(call.row.currency)
          THEN Is(toUpperCase(call.settings.defaultCurrency), FALSE)
          ELSE Is(toUpperCase(trim(call.row.currency.s)),
                  toUpperCase(trim(call.row.currency.s)) # trim(call.row.currency.s))

\* C23: autoDetectColumns maps each field of the mode to the first header,
\* in the order of the file, that matches an alias of the field, and leaves
\* a field absent exactly when no header matches; every other field is
\* absent.
C23_FirstHeaderWins ==
  Returned("autoDetectColumns")
    => \A field \in DOMAIN ret.value :
         LET hits == {i \in 1..Len(call.headers) :
                        matchesAliases(call.headers[i], COLUMN_ALIASES[field])}
         IN IF InSeq(field, getFieldsForMode(call.mode)) /\ hits # {}
            THEN \E i \in hits :
                   /\ \A j \in hits : i <= j
                   /\ ret.value[field] = Str(call.headers[i])
            ELSE ret.value[field] = Absent

\* C24: the Standard row {abc123, 2024-01-15, $50.00} with the settings
\* {Lead, +00:00, USD} passes validation without an error and is exported
\* as abc123, Lead, 2024-01-15 12:00:00+00:00, 50.00, USD, and the changes
\* of the row include the default time and the cleaned value.
C24_StandardScenario ==
  (/\ Returned("processData")
   /\ call.fileData.data
        = <<[gclid |-> Str("abc123"), date |-> Str("2024-01-15"),
             value |-> Str("$50.00")]>>
   /\ call.settings = Settings("Lead", "", "+00:00", "USD"))
    => /\ ret.validationResult.canExport
       /\ \A k \in 1..Len(ret.validationResult.issues) :
            ret.validationResult.issues[k].type # "error"
       /\ ret.exportData
            = <<[column \in {"Google Click ID", "Conversion Name", "Conversion Time",
                             "Conversion Value", "Conversion Currency"} |->
                   CASE column = "Google Click ID" -> Str("abc123")
                     [] column = "Conversion Name" -> Str("Lead")
                     [] column = "Conversion Time" -> Str("2024-01-15 12:00:00+00:00")
                     [] column = "Conversion Value" -> Str("50.00")
                     [] column = "Conversion Currency" -> Str("USD")]>>
       /\ \A tag \in {VALIDATION_MESSAGES.info.timeAdded,
                      VALIDATION_MESSAGES.info.valueFixed} :
            InSeq([change |-> tag, rowIndex |-> 1], ret.optimizationResult.changes)

\* C26 (under Spec): when no run is in flight and the run for the current
\* file, mappings, mode and settings, which is the one started last, is one
\* that ends without raising, the validation report, the optimized rows,
\* the change summary and the export rows on display are those of that run.
C26_LastRunWins ==
  (runs = <<>> /\ fileData # Null /\ Keys(mappings) # {})
    => \A run \in {processData(fileData, mappings, mode, settings, revision)} :
         ~run.optimizationResult.threw
           => /\ validation = run.validationResult
              /\ optimizedData = run.optimizationResult.data
              /\ optimizationSummary = run.optimizationResult.changeSummary
              /\ exportData = ExportOf(run, revision)

\* C27 (under Spec): isProcessing is true whenever a run has started and
\* not yet ended.
C27_ProcessingWhileInFlight == runs # <<>> => isProcessing

\* C28 (under Spec): when a run has ended by raising and isProcessing is
\* false again, no export rows are on offer: the run stored none, so any
\* there are come from an earlier run.
C28_NoExportAfterRaise ==
  (finished # NoRun /\ finished.threw /\ ~isProcessing) => exportData = <<>>

\* C29 (under Spec): while there is no file, or no mapping for the file and
\* the mode, and no run is in flight, nothing of an earlier run is left:
\* mappedData, optimizedData and exportData are empty, validation and
\* optimizationSummary are null.
C29_NothingLeft ==
  ((fileData = Null \/ Keys(mappings) = {}) /\ runs = <<>>)
    => /\ mappedData = <<>>
       /\ validation = Null
       /\ optimizedData = <<>>
       /\ optimizationSummary = Null
       /\ exportData = <<>>

(***************************************************************************)
(* Properties of optimizeAll, under SpecOptimizeAll.                       *)
(***************************************************************************)
\* <<row, field>> comes before <<row, field>> in the order of the source
Before(a, b) == a[1] < b[1] \/ (a[1] = b[1] /\ a[2] < b[2])

\* C25: optimizeAll awaits at most one digest at a time and it is one of
\* the row under optimisation, so that no hashing step of a row begins before
\* those of the rows before it have ended; the hashing steps begin in the
\* order of the rows and, in a row, of the fields; the rows returned are
\* those of the input, in its order; and the count of each change in
\* changeSummary is the number of rows whose changes contain it.
C25_RowsInOrder ==
  call.fn = "optimizeAll"
    => /\ \A a \in 1..Len(ret.started), b \in 1..Len(ret.started) :
            a < b => Before(ret.started[a], ret.started[b])
       /\ ret.t = "running"
            => /\ Cardinality(ret.pending) <= 1
               /\ \A h \in ret.pending : h[1] = ret.i
               /\ Len(ret.acc.data) = ret.i - 1
       /\ ret.t = "done"
            => /\ ret.pending = {}
               /\ Len(ret.result.data) = Len(call.data)
               /\ \A i \in 1..Len(call.data) :
                    ret.result.data[i]._rowIndex = call.data[i]._rowIndex
               /\ \A tag \in DOMAIN ret.result.changeSummary
                               \cup {VALIDATION_MESSAGES.info[n] :
                                       n \in DOMAIN VALIDATION_MESSAGES.info} :
                    LET rowsWith ==
                          {i \in 1..Len(call.data) :
                             InSeq(tag, optimizeRow(call.data[i], call.mode,
                                                    call.settings, revision).changes)}
                    IN /\ tag \in DOMAIN ret.result.changeSummary <=> rowsWith # {}
                       /\ tag \in DOMAIN ret.result.changeSummary
                            => /\ ret.result.changeSummary[tag] = Cardinality(rowsWith)
                               /\ ret.result.changeSummary[tag] <= Len(call.data)

\* two rows with values to hash have been optimized: the five hashing steps
\* began in order and the second row's began after the first row's ended
C25_Witness ==
  /\ call.fn = "optimizeAll" /\ ret.t = "done"
  /\ call.mode = MODES.EC4L
  /\ Len(call.data) = 2
  /\ ret.started = <<<<1, 1>>, <<1, 2>>, <<1, 3>>, <<1, 4>>, <<2, 1>>>>
  /\ ret.result.changeSummary[VALIDATION_MESSAGES.info.emailHashed] = 2

(***************************************************************************)
(* Properties of processData, under SpecOptimizer.                         *)
(***************************************************************************)
\* digits, or digits, a period and digits, that denote a number above zero
PlainPositiveDecimal(s) ==
  /\ Len(s) > 0
  /\ \A i \in 1..Len(s) : Ch(s, i) \in DIGITS \cup {"."}
  /\ Cardinality({i \in 1..Len(s) : Ch(s, i) = "."}) <= 1
  /\ Ch(s, 1) # "." /\ Ch(s, Len(s)) # "."
  /\ \E i \in 1..Len(s) : Ch(s, i) \in DIGITS \ {"0"}

\* C30: the conversion value of every export row is a plain decimal number
\* above zero.
C30_PlainDecimalValue ==
  Returned("processData")
    => \A i \in 1..Len(ret.exportData) :
         /\ ret.exportData[i]["Conversion Value"].t = "string"
         /\ PlainPositiveDecimal(ret.exportData[i]["Conversion Value"].s)

====
